---- MODULE Spec2Model ----
(***************************************************************************)
(* Model of opsd's DomeController                                          *)
(* (src/warwick/observatory/operations/dome_controller.py).                *)
(*                                                                         *)
(* Three threads share one DomeController object:                          *)
(*   - the loop thread running DomeController.__loop,                      *)
(*   - an operator thread calling request_mode, set_open_window,           *)
(*     clear_open_window and status,                                       *)
(*   - the environment thread calling notify_environment_status.           *)
(* Each step of a thread is one read or write of an attribute of the       *)
(* object (the granularity at which CPython threads interleave), except    *)
(* where the steps merged touch nothing another thread can see or change.  *)
(* Dates are seconds on a clock that advances in steps of TimeStep.        *)
(***************************************************************************)
EXTENDS Integers, Sequences, FiniteSets, TLC

\* ------------------------------------------------------------------ bounds
\* The clock runs from 0 to MaxTicks * TimeStep seconds.
MaxTicks == 2
\* At most MaxCalls public calls are made in all (request_mode,
\* set_open_window, clear_open_window, status, notify_environment_status).
MaxCalls == 3

\* The clock of the timed specification runs from 0 to MaxSeconds seconds.
MaxSeconds == 30

\* abort() is called at most MaxAborts times on the action that runs.
MaxAborts == 2

\* ------------------------------------------------------- program constants
\* loop_delay=10: the poll interval of the loop, in seconds; the clock of the
\* model advances by the same amount.
LoopDelay == 10
TimeStep == LoopDelay
\* environment_safe_age < 30
EnvAgeLimit == 30
\* None, for the two window dates
None == -1
\* datetime.datetime.min, the initial _environment_safe_date
DateMin == -1000

\* if attempt == 6 (pointing_model_pointing.py)
AttemptLimit == 6

\* OperationsMode (constants.py) and DomeStatus
Manual == "Manual"
Automatic == "Automatic"
Error == "Error"
Closed == "Closed"
Open == "Open"
Moving == "Moving"
Timeout == "Timeout"

\* DomeCommandStatus: Succeeded, or any other status
Succeeded == "Succeeded"
Failed == "Failed"
\* the call (or the connection) raised
Raised == "Raised"
NoCall == "NoCall"

\* TelescopeActionStatus
Incomplete == "Incomplete"
Complete == "Complete"
ActionError == "Error"

\* The actions modelled, and the value of a_kind while none runs
SlewTelescope == "SlewTelescope"
ObserveAltAzField == "ObserveAltAzField"
PointingModelPointing == "PointingModelPointing"
NoAction == "NoAction"
ActionKinds == {SlewTelescope, ObserveAltAzField, PointingModelPointing}

\* WCSStatus
WCSStatuses == {"Inactive", "WaitingForWCS", "WCSFailed", "WCSComplete"}

\* DomeHeartbeatStatus and DomeShutterStatus, as dome.status() reports them
HeartbeatStatuses == {"Active", "TrippedClosing", "TrippedIdle"}
ShutterStatuses == {"Closed", "Open", "PartiallyOpen", "Opening", "Closing"}

\* The modes an operator asks for
RequestableModes == {Manual, Automatic}

\* The arguments set_open_window is called with: well-formed pairs of dates
\* (not necessarily ordered) and malformed values.  "x" is a value that is
\* not a datetime.
NotADate == -2
WindowInputs ==
    { <<>>, <<10>>, <<NotADate, 30>>, <<0, 20>>, <<0, 10>>, <<0, 30>> }

VARIABLES
    \* --- the DomeController object
    mode,                     \* _mode
    requested_mode,           \* _requested_mode
    requested_open_date,      \* _requested_open_date (None or a date)
    requested_close_date,     \* _requested_close_date
    status,                   \* _status
    environment_safe,         \* _environment_safe
    environment_safe_date,    \* _environment_safe_date
    daemon_error,             \* _daemon_error
    lock,                     \* holder of _lock: "free", "loop" or "op"
    calls,                    \* public calls made so far
    notified,                 \* the loop was woken out of _wait_condition.wait
    waited,                   \* seconds the wait in progress has lasted
    \* --- the clock
    now,                      \* datetime.datetime.utcnow()
    \* --- the loop thread
    lpc,                      \* position in __loop
    l_requested_mode,         \* local requested_mode
    current_date,             \* local current_date
    requested_status,         \* local requested_status
    environment_safe_age,     \* local environment_safe_age
    l_status,                 \* local status (the polled DomeStatus)
    mode_ret,                 \* result of the mode-change call of this tick
    hb_ret,                   \* result of the heartbeat ping of this tick
    cmds,                     \* dome daemon calls made in this tick, in order
    raised,                   \* a dome daemon call raised in this tick
    polled_hb,                \* heartbeat_status of the poll of this tick
    \* --- the operator thread
    opc,                      \* position in the public operation
    o_mode,                   \* the argument of request_mode
    o_dates,                  \* the argument of set_open_window
    \* --- the environment thread
    epc,                      \* position in notify_environment_status
    e_safe,                   \* its argument is_safe
    e_now,                    \* its local now
    \* --- history
    req_since_error,          \* mode is Error and request_mode has been called
                              \* since it became Error
    e_overlap,                \* set_open_window wrote during this notify call
    safe_ping_date            \* the date (utcnow() of the call) of the last safe ping

objvars == <<mode, requested_mode, requested_open_date, requested_close_date,
             status, environment_safe, environment_safe_date, daemon_error,
             lock, notified, waited>>
loopvars == <<lpc, l_requested_mode, current_date, requested_status,
              environment_safe_age, l_status, mode_ret, hb_ret, cmds, raised,
              polled_hb>>
opvars == <<opc, o_mode, o_dates>>
envvars == <<epc, e_safe, e_now>>
histvars == <<req_since_error, e_overlap, safe_ping_date>>
domevars == <<objvars, now, loopvars, opvars, envvars, histvars, calls>>

VARIABLES
    \* --- the action that runs (a TelescopeAction) and its run thread
    a_kind,                   \* its class
    onsky,                    \* config.get('onsky', True)
    apc,                      \* position in run_thread
    a_status,                 \* self.status
    aborted,                  \* self.aborted
    dome_is_open,             \* self.dome_is_open
    a_notified,               \* the run thread was woken out of its wait
    wcs_status,               \* self._wcs_status
    attempt,                  \* local attempt
    stop_hit,                 \* abort's stop command reached the mount while
                              \* the slew of run_thread was in progress
    \* --- the thread that calls abort, dome_status_changed, received_frame
    xpc,                      \* position in the call
    x_late,                   \* the abort in progress began on an action
                              \* whose status was Complete or Error
    aborts,                   \* abort calls made so far
    stops                     \* stop commands abort has sent to the mount

actvars == <<a_kind, onsky, apc, a_status, aborted, dome_is_open, a_notified,
             wcs_status, attempt, stop_hit, xpc, x_late, aborts, stops>>

VARIABLES
    \* --- one call of validate_schedule and one of parse_schedule_actions
    s_site,                   \* which schedule.py: "observatory" or "rasa"
    s_doc,                    \* the argument json
    s_ret,                    \* what validate_schedule did
    s_parsed,                 \* what parse_schedule_actions did
    s_window,                 \* what parse_dome_window did
    \* --- one CameraWrapper of the SkyFlats action
    c_evening,                \* _is_evening
    c_state,                  \* state
    c_archive,                \* the pipeline archives this camera's frames
    c_exposure,               \* EXPTIME of the last frame received
    c_counts,                 \* its MEDCNTS less the bias signal
    c_next,                   \* the exposure last passed to __take_image
    c_clamped,                \* clamped_exposure of the last frame processed
    c_set_archive,            \* arguments of the set_archive calls made
    c_frames                  \* frames received so far

schedvars == <<s_site, s_doc, s_ret, s_parsed, s_window>>
flatvars == <<c_evening, c_state, c_archive, c_exposure, c_counts, c_next,
              c_clamped, c_set_archive, c_frames>>

VARIABLES
    \* --- the DomeController's synchronisation objects, one step per acquire
    cond,                     \* holder of _wait_condition: "free", "loop",
                              \* "op" or "env"
    \* --- the SkyFlats action: its cameras and its three threads (the run
    \* thread and the thread of abort / dome_status_changed use the variables
    \* of the action above)
    f_state,                  \* state of each CameraWrapper
    a_cam,                    \* the run thread's position in self._cameras
    a_success,                \* local success of run_thread
    run_aborted,              \* cameras the run thread has called abort() on
    x_cam,                    \* abort's position in self._cameras
    abort_returned,           \* SkyFlats.abort() has returned
    rpc,                      \* position in CameraWrapper.received_frame
    r_cam,                    \* the camera it was called on
    r_last,                   \* its local last_state
    r_dec                     \* what the evening / dawn rules make of its
                              \* headers: "complete", "saving" or "none"

skyvars == <<f_state, a_cam, a_success, run_aborted, x_cam, abort_returned,
             rpc, r_cam, r_last, r_dec>>
extvars == <<cond, skyvars>>
libvars == <<schedvars, flatvars, extvars>>
vars == <<domevars, actvars, libvars>>


win == <<requested_open_date, requested_close_date>>
envsafe == <<environment_safe, environment_safe_date>>
ticklocals == <<requested_status, environment_safe_age, l_status, mode_ret,
                hb_ret, cmds, raised, polled_hb>>

\* ---------------------------------------------------------------- helpers
\* DomeStatus.parse with the shutters looked at before the heartbeat
DomeStatusParseShuttersFirst(hb, east, west) ==
    IF east = "Closed" /\ west = "Closed" THEN Closed
    ELSE IF east \in {"Opening", "Closing"} \/ west \in {"Opening", "Closing"}
         THEN Moving
    ELSE IF hb \in {"TrippedClosing", "TrippedIdle"} THEN Timeout
    ELSE Open

\* DomeStatus.parse: the heartbeat is looked at before the shutters.
DomeStatusParse(hb, east, west) ==
    IF hb \in {"TrippedClosing", "TrippedIdle"} THEN Timeout
    ELSE IF east = "Closed" /\ west = "Closed" THEN Closed
    ELSE IF east \in {"Opening", "Closing"} \/ west \in {"Opening", "Closing"}
         THEN Moving
    ELSE Open

\* auto_failure left out of the test of line 126
AutoFailureNever(m, rm) == FALSE

\* auto_failure: an Error is not left by asking for Automatic
AutoFailure(m, rm) == m = Error /\ rm = Automatic

\* A mode change attempted whenever the requested mode differs
ModeChangeNeededAnyDifference(m, rm) == rm # m

\* if requested_mode != self._mode and not auto_failure
ModeChangeNeeded(m, rm) == rm # m /\ ~AutoFailure(m, rm)

\* A failed switch to Automatic that leaves the mode Manual
ModeAfterChangeLenient(rm, ret) ==
    IF rm = Automatic
    THEN (IF ret = Succeeded THEN Automatic ELSE Manual)
    ELSE (IF ret = Succeeded THEN Manual ELSE Error)

\* The mode written after set_heartbeat_timer returned ret
ModeAfterChange(rm, ret) ==
    IF rm = Automatic
    THEN (IF ret = Succeeded THEN Automatic ELSE Error)
    ELSE (IF ret = Succeeded THEN Manual ELSE Error)

\* An except handler that logs and leaves the mode alone
ExceptModeStaysAutomatic == Automatic

\* The mode both except handlers of the loop write
ExceptMode == Error

\* The daemon call of a mode change
ModeChangeCall(rm) ==
    IF rm = Automatic THEN "set_heartbeat_timer" ELSE "set_heartbeat_timer_0"

\* A loop that closes the dome but never opens it
MoveNeededCloseOnly(rs, st) == rs = Closed /\ st = Open

\* The dome is to be moved: requested Closed and polled Open, or the reverse
MoveNeeded(rs, st) ==
    \/ rs = Closed /\ st = Open
    \/ rs = Open /\ st = Closed

\* A keep-alive that does not look at the age of the environment ping
KeepAliveAlways(rs, st, age) == rs = st

\* elif requested_status == status and environment_safe_age < 30
KeepAliveNeeded(rs, st, age) == rs = st /\ age < EnvAgeLimit

\* A loop that answers every difference by closing
ShutterCallAlwaysClose(rs) == "close_shutters"

\* The shutter command of a requested status
ShutterCall(rs) == IF rs = Open THEN "open_shutters" ELSE "close_shutters"

\* A clear_open_window that forgets the close date
ClearedCloseDateKept == requested_close_date

\* The values clear_open_window stores
ClearedOpenDate == None
ClearedCloseDate == None

\* A loop that enters the Automatic section in every mode
PcAfterModeAlwaysAuto(m) == "auto"

\* Where the loop goes on after the mode section: the Automatic section is
\* entered only if self._mode == OperationsMode.Automatic
PcAfterMode(m) == IF m = Automatic THEN "auto" ELSE "expiry"

\* Where the loop goes on after the snapshot
PcAfterSnapshot(m, rm) ==
    IF ModeChangeNeeded(m, rm) THEN "mode" ELSE PcAfterMode(m)

\* The if/elif chain after the poll
PcAfterPoll(st, rs, age) ==
    IF st = Timeout THEN "timeout"
    ELSE IF MoveNeeded(rs, st) THEN "rearm"
    ELSE IF KeepAliveNeeded(rs, st, age) THEN "keepalive"
    ELSE "expiry"

\* The locals of a tick before its first statement
TickLocalsInit ==
    /\ requested_status = Closed
    /\ environment_safe_age = 0
    /\ l_status = Closed
    /\ mode_ret = NoCall
    /\ hb_ret = NoCall
    /\ cmds = <<>>
    /\ raised = FALSE
    /\ polled_hb = "Active"

\* ------------------------------------------------------ schedule validator
\* validate_schedule and parse_schedule_actions of schedule.py, in the
\* observatory and in the rasa package.  A document is a JSON object: a key
\* that is absent has the value Missing (for 'dome' and 'actions' the field
\* dome_json, actions_json tells what kind of JSON value the key holds).
\* Dates are counted in hours from 2026-11-01T00:00:00Z.

\* A key that the JSON object does not hold
Missing == "<missing>"

\* The longest 'actions' list
MaxActions == 2

\* Sunset and sunrise, in hours after the midnight that begins the night
SunsetHour == 17
SunriseHour == 31

\* A night on which the sun neither rises nor sets at the configured site
PolarNight == -3192

\* datetime.datetime.strptime(night, '%Y-%m-%d'): the midnight of the night,
\* or NotADate where strptime raises ValueError
StrptimeNight(night) ==
    CASE night = "2026-11-01" -> 0
      [] night = "2026-06-21" -> PolarNight
      [] OTHER -> NotADate

\* datetime.datetime.strptime(instance, '%Y-%m-%dT%H:%M:%SZ')
Strptime(instance) ==
    CASE instance = "2026-11-01T16:00:00Z" -> 16
      [] instance = "2026-11-01T17:00:00Z" -> 17
      [] instance = "2026-11-02T00:00:00Z" -> 24
      [] instance = "2026-11-02T07:00:00Z" -> 31
      [] instance = "2026-11-02T08:00:00Z" -> 32
      [] OTHER -> NotADate

\* night_start.strftime('%Y-%m-%dT%H:%M:%SZ') (str(date) in the rasa package)
Strftime(date) == "hour " \o ToString(date)

\* almanac.find_discrete over the day that follows midday of the night: the
\* settings and risings of the sun that it finds
FindDiscrete(night_date) ==
    IF night_date = PolarNight THEN <<>>
    ELSE <<night_date + SunsetHour, night_date + SunriseHour>>

\* obs.next_setting(ephem.Sun()), obs.next_rising(ephem.Sun()) at La Palma
NextSettingRising(night_date) ==
    <<night_date + SunsetHour, night_date + SunriseHour>>

\* __create_validator: the validator knows night_start and night_end; the
\* call raises when strptime rejects night and, with skyfield, when events
\* has fewer than two entries
CreateValidator(site, night) ==
    LET night_date == StrptimeNight(night)
        events == IF site = "rasa" THEN NextSettingRising(night_date)
                  ELSE FindDiscrete(night_date)
    IN  IF night_date = NotADate \/ Len(events) < 2
        THEN [raised |-> TRUE, night_start |-> 0, night_end |-> 0]
        ELSE [raised |-> FALSE, night_start |-> events[1],
              night_end |-> events[2]]

\* A require_night that only looks at the start of the night
RequireNightSunsetOnly(site, validator, instance) ==
    LET date == Strptime(instance)
    IN  IF date = NotADate
        THEN <<instance \o " is not a valid datetime">>
        ELSE IF date < validator.night_start
        THEN <<(IF site = "rasa" THEN Strftime(date) ELSE instance)
               \o " is not between " \o Strftime(validator.night_start)
               \o " and " \o Strftime(validator.night_end)>>
        ELSE <<>>

\* require_night (with value True): the messages of the ValidationErrors it
\* yields for instance
RequireNight(site, validator, instance) ==
    LET date == Strptime(instance)
    IN  IF date = NotADate
        THEN <<instance \o " is not a valid datetime">>
        ELSE IF date < validator.night_start \/ date > validator.night_end
        THEN <<(IF site = "rasa" THEN Strftime(date) ELSE instance)
               \o " is not between " \o Strftime(validator.night_start)
               \o " and " \o Strftime(validator.night_end)>>
        ELSE <<>>

\* A jsonschema ValidationError: its path (the property it is about, "" for
\* the object itself) and its message
ValidationError(path, message) == [path |-> path, message |-> message]

\* An order in which no path comes before another: the errors stay as
\* iter_errors yields them
PathRankFlat(path) == 0

\* The order of paths under sorted(..., key=lambda e: e.path)
PathRank(path) ==
    CASE path = "" -> 0
      [] path = "close" -> 1
      [] path = "dec" -> 2
      [] path = "open" -> 3
      [] path = "ra" -> 4

\* sorted(errors, key=lambda e: e.path): a stable sort by path
RECURSIVE SortByPath(_)
SortByPath(errors) ==
    IF Len(errors) <= 1 THEN errors
    ELSE LET sorted == SortByPath(SubSeq(errors, 1, Len(errors) - 1))
             e == errors[Len(errors)]
             before == SelectSeq(sorted,
                         LAMBDA x : PathRank(x.path) <= PathRank(e.path))
             after == SelectSeq(sorted,
                         LAMBDA x : PathRank(x.path) > PathRank(e.path))
         IN  before \o <<e>> \o after

\* __validate_schema: the sorted errors as messages, 'path: message' for an
\* error with a path and the bare message otherwise (the path is kept with
\* each message)
ValidateSchema(errors) ==
    LET sorted == SortByPath(errors)
    IN  [i \in 1..Len(sorted) |->
           [path |-> sorted[i].path,
            body |-> IF sorted[i].path # ""
                     THEN sorted[i].path \o ": " \o sorted[i].message
                     ELSE sorted[i].message]]

\* What iter_errors yields for a dome block under the schema of
\* __validate_dome: the missing required keys, then the errors of each
\* property that is there
DomeSchemaErrors(site, validator, block) ==
    LET keys == <<"open", "close">>
        required(k) ==
            IF block[k] = Missing
            THEN <<ValidationError("",
                     "'" \o k \o "' is a required property")>>
            ELSE <<>>
        property(k) ==
            IF block[k] = Missing THEN <<>>
            ELSE LET texts == RequireNight(site, validator, block[k])
                 IN  [i \in 1..Len(texts) |-> ValidationError(k, texts[i])]
    IN  required(keys[1]) \o required(keys[2])
          \o property(keys[1]) \o property(keys[2])

\* A message of validate_schedule: its text, and with it what produced it
\* (src is "dome", "action" or "syntax"; index is the action's index)
Message(src, index, path, text) ==
    [src |-> src, index |-> index, path |-> path, text |-> text]

\* __validate_dome
ValidateDome(site, validator, block) ==
    LET errors == ValidateSchema(DomeSchemaErrors(site, validator, block))
    IN  [i \in 1..Len(errors) |->
           Message("dome", 0, errors[i].path, "dome: " \o errors[i].body)]

\* The registered action types (config.actions, ACTION_TYPES)
ActionTypes == {"SlewTelescope", "Wait"}

\* validation_schema() of a registered type: SlewTelescope returns a schema,
\* Wait returns None
HasSchema(type) == type = "SlewTelescope"

\* What iter_errors yields for a block under SlewTelescope's schema: ra in
\* [0, 360] and dec in [-30, 85], in the order of the schema's properties
SlewSchemaErrors(block) ==
    (IF block.ra > 360
     THEN <<ValidationError("ra", ToString(block.ra)
                                    \o " is greater than the maximum of 360")>>
     ELSE <<>>)
    \o (IF block.dec > 85
        THEN <<ValidationError("dec", ToString(block.dec)
                                    \o " is greater than the maximum of 85")>>
        ELSE <<>>)

\* __validate_action: the messages for the entry at index, or the exception
\* that `'type' not in block` raises for an entry that is not an object
ValidateAction(index, block) ==
    LET i == ToString(index)
    IN  IF block.json # "object"
        THEN [raised |-> TRUE, messages |-> <<>>]
        ELSE IF block.type = Missing
        THEN [raised |-> FALSE,
              messages |-> <<Message("action", index, "",
                               "action " \o i \o ": missing key 'type'")>>]
        ELSE IF block.type \notin ActionTypes
        THEN [raised |-> FALSE,
              messages |-> <<Message("action", index, "",
                               "action " \o i \o ": unknown action type '"
                                 \o block.type \o "'")>>]
        ELSE LET errors ==
                   IF HasSchema(block.type)
                   THEN ValidateSchema(SlewSchemaErrors(block))
                   ELSE <<[path |-> "",
                           body |-> "validation not implemented"]>>
             IN  [raised |-> FALSE,
                  messages |->
                    [k \in 1..Len(errors) |->
                       Message("action", index, errors[k].path,
                               "action " \o i \o " (" \o block.type \o "): "
                                 \o errors[k].body)]]

\* for i, action in enumerate(json['actions']):
\*     errors.extend(__validate_action(validator, i, action, ...))
\* from the entry at position n (index n - 1) on
RECURSIVE ValidateActions(_, _)
ValidateActions(actions, n) ==
    IF n > Len(actions) THEN [raised |-> FALSE, messages |-> <<>>]
    ELSE LET first == ValidateAction(n - 1, actions[n])
             rest == ValidateActions(actions, n + 1)
         IN  IF first.raised \/ rest.raised
             THEN [raised |-> TRUE, messages |-> <<>>]
             ELSE [raised |-> FALSE,
                   messages |-> first.messages \o rest.messages]

\* A validate_schedule that never finds 'night' missing
NightMissingNever(doc) == FALSE

\* 'night' not in json
NightMissing(doc) == doc.night = Missing

\* What a call of validate_schedule does: it raises, or it returns valid and
\* messages; called holds the helpers it has called
Returned(valid, messages, called) ==
    [done |-> TRUE, raised |-> FALSE, valid |-> valid,
     messages |-> messages, called |-> called]
RaisedIn(called) ==
    [done |-> TRUE, raised |-> TRUE, valid |-> FALSE, messages |-> <<>>,
     called |-> called]

\* validate_schedule.  In the observatory package __create_validator is
\* called outside any try; in the rasa package its exception is swallowed and
\* validator is then unbound, which raises where it is next evaluated: at
\* the call of __validate_dome or of the first __validate_action
ValidateScheduleOf(site, doc) ==
    IF NightMissing(doc)
    THEN Returned(FALSE,
                  <<Message("syntax", 0, "",
                            "syntax error: missing key 'night'")>>, {})
    ELSE
    LET validator == CreateValidator(site, doc.night)
        created == {"__create_validator"}
        unbound == validator.raised
        dome_called == IF doc.dome_json = "object"
                       THEN {"__validate_dome"} ELSE {}
        action_called == IF doc.actions_json = "array"
                             /\ Len(doc.actions) > 0
                         THEN {"__validate_action"} ELSE {}
        dome_errors == IF doc.dome_json = "object"
                       THEN ValidateDome(site, validator, doc.dome)
                       ELSE <<>>
        action_errors == ValidateActions(doc.actions, 1)
        called == created \cup dome_called \cup action_called
    IN  IF unbound /\ site # "rasa" THEN RaisedIn(created)
        ELSE IF unbound /\ doc.dome_json = "object" THEN RaisedIn(created)
        ELSE IF unbound /\ action_called # {} THEN RaisedIn(created)
        ELSE IF doc.actions_json = "array"
        THEN IF action_errors.raised THEN RaisedIn(called)
             ELSE Returned(dome_errors \o action_errors.messages = <<>>,
                           dome_errors \o action_errors.messages, called)
        ELSE IF doc.actions_json = "missing"
        THEN Returned(FALSE,
                      Append(dome_errors,
                             Message("syntax", 0, "",
                                     "syntax error: missing key 'actions'")),
                      called)
        ELSE Returned(FALSE,
                      Append(dome_errors,
                             Message("syntax", 0, "",
                                     "syntax: error 'actions' must be a list")),
                      called)

\* action_types[action['type']](action): the Action built from an entry
ActionOf(block) == [type |-> block.type, config |-> block]

\* Building the Action of an entry raises: the entry is not an object
\* (TypeError) or its type is absent or not registered (KeyError)
ConstructionRaises(block) ==
    \/ block.json # "object"
    \/ block.type \notin ActionTypes

\* The loop of parse_schedule_actions from position n on, actions being the
\* list built so far
RECURSIVE ParseLoop(_, _, _)
ParseLoop(entries, n, actions) ==
    IF n > Len(entries) THEN [raised |-> FALSE, actions |-> actions]
    ELSE IF ConstructionRaises(entries[n])
    THEN [raised |-> TRUE, actions |-> actions]
    ELSE ParseLoop(entries, n + 1, Append(actions, ActionOf(entries[n])))

\* A parse_schedule_actions that returns what it has built when an entry
\* fails
ParseScheduleActionsPartial(doc) ==
    IF doc.actions_json # "array" THEN <<>>
    ELSE ParseLoop(doc.actions, 1, <<>>).actions

\* parse_schedule_actions: [] on any exception (json['actions'] missing,
\* an entry that cannot be built); a value that is not a list has no entry
\* that can be built
ParseScheduleActionsOf(doc) ==
    IF doc.actions_json # "array" THEN <<>>
    ELSE LET loop == ParseLoop(doc.actions, 1, <<>>)
         IN  IF loop.raised THEN <<>> ELSE loop.actions

\* The documents: the values of 'night', of the keys of 'dome' and of the
\* entries of 'actions'
NightInputs == {Missing, "2026-11-01", "tonight", "2026-06-21"}
DateInputs ==
    {Missing, "2026-11-01T16:00:00Z", "2026-11-01T17:00:00Z",
     "2026-11-02T07:00:00Z", "2026-11-02T08:00:00Z", "midnight"}
DomeInputs == [open : DateInputs, close : DateInputs]
NoDome == [open |-> Missing, close |-> Missing]
EntryInputs ==
    {[json |-> "number", type |-> Missing, ra |-> 10, dec |-> 20]}
    \cup {[json |-> "object", type |-> t, ra |-> 10, dec |-> 20] :
            t \in {Missing, "Teleport", "Wait"}}
    \cup {[json |-> "object", type |-> "SlewTelescope", ra |-> r, dec |-> d] :
            r \in {10, 400}, d \in {20, 90}}
ActionLists == UNION {[1..n -> EntryInputs] : n \in 0..MaxActions}
DocInputs ==
    {[night |-> n, dome_json |-> "missing", dome |-> NoDome,
      actions_json |-> a, actions |-> <<>>] :
        n \in NightInputs, a \in {"missing", "string"}}
    \cup {[night |-> n, dome_json |-> "object", dome |-> d,
           actions_json |-> a, actions |-> <<>>] :
        n \in NightInputs, d \in DomeInputs, a \in {"missing", "string"}}
    \cup {[night |-> n, dome_json |-> "missing", dome |-> NoDome,
           actions_json |-> "array", actions |-> l] :
        n \in NightInputs, l \in ActionLists}
    \cup {[night |-> n, dome_json |-> "object", dome |-> d,
           actions_json |-> "array", actions |-> l] :
        n \in NightInputs, d \in DomeInputs, l \in ActionLists}

\* Neither function has been called
NotCalled ==
    [done |-> FALSE, raised |-> FALSE, valid |-> FALSE, messages |-> <<>>,
     called |-> {}]
NotParsed == [done |-> FALSE, actions |-> <<>>]
NotWindowed == [done |-> FALSE, kind |-> "none", open |-> None, close |-> None]

\* parse_dome_window with the two dates in ascending order (mutation of
\* ParseDomeWindowOf)
ParseDomeWindowSorted(site, doc) ==
    LET open_date == Strptime(doc.dome.open)
        close_date == Strptime(doc.dome.close)
    IN  [done |-> TRUE, kind |-> "pair",
         open |-> IF open_date < close_date THEN open_date ELSE close_date,
         close |-> IF open_date < close_date THEN close_date ELSE open_date]

\* parse_dome_window(json): None without a dome block that has both keys,
\* else the two timestamps parsed, in the order (open, close); strptime
\* raises ValueError for a malformed timestamp.  The rasa package has
\* parse_schedule_dome_times in its place, which returns (None, None).
ParseDomeWindowOf(site, doc) ==
    IF site = "rasa"
    THEN [done |-> TRUE, kind |-> "pair", open |-> None, close |-> None]
    ELSE IF doc.dome_json = "object" /\ doc.dome.open # Missing
            /\ doc.dome.close # Missing
    THEN LET open_date == Strptime(doc.dome.open)
             close_date == Strptime(doc.dome.close)
         IN  IF open_date = NotADate \/ close_date = NotADate
             THEN [done |-> TRUE, kind |-> "raises", open |-> None,
                   close |-> None]
             ELSE [done |-> TRUE, kind |-> "pair", open |-> open_date,
                   close |-> close_date]
    ELSE [done |-> TRUE, kind |-> "none", open |-> None, close |-> None]

\* No schedule is being validated
ScheduleIdle ==
    /\ s_site = "observatory"
    /\ s_doc = [night |-> Missing, dome_json |-> "missing", dome |-> NoDome,
                actions_json |-> "missing", actions |-> <<>>]
    /\ s_ret = NotCalled
    /\ s_parsed = NotParsed
    /\ s_window = NotWindowed

\* ------------------------------------------------- SkyFlats: CameraWrapper
\* One CameraWrapper of skyflats.py.  Exposures are rational numbers of
\* seconds <<numerator, denominator>> in lowest terms; counts are ADU.

\* AutoFlatState
AutoFlatWaiting == 0
AutoFlatSaving == 1
AutoFlatComplete == 2
AutoFlatError == 3

\* CONFIG
BiasSignal == 1300
MaxExposureDelta == 3
MinSaveCounts == 15000
TargetCounts == 30000
EveningScale == <<107, 100>>
DawnScale == <<9, 10>>
MinExposure == <<1, 10>>
MaxExposure == <<30, 1>>
MinSaveExposure == <<1, 1>>

\* The frames one camera receives
MaxFrames == 2

\* No exposure yet
NoExposure == <<0, 1>>

RECURSIVE GCD(_, _)
GCD(a, b) == IF b = 0 THEN a ELSE GCD(b, a % b)

\* n/d in lowest terms (d > 0, n >= 0)
Rat(n, d) == LET g == GCD(n, d) IN <<n \div g, d \div g>>

RLess(a, b) == a[1] * b[2] < b[1] * a[2]
RMin(a, b) == IF RLess(b, a) THEN b ELSE a
RMax(a, b) == IF RLess(a, b) THEN b ELSE a

\* self._scale
Scale(is_evening) == IF is_evening THEN EveningScale ELSE DawnScale

\* self._start_exposure
StartExposure(is_evening) ==
    IF is_evening THEN MinExposure ELSE MinSaveExposure

\* new_exposure: scale * exposure * target_counts / counts if counts > 0,
\* else exposure * max_exposure_delta
NewExposure(is_evening, exposure, counts) ==
    IF counts > 0
    THEN Rat(Scale(is_evening)[1] * exposure[1] * TargetCounts,
             Scale(is_evening)[2] * exposure[2] * counts)
    ELSE Rat(exposure[1] * MaxExposureDelta, exposure[2])

\* An exposure that is only kept inside the exposure limits
ClampedExposureLimitsOnly(new_exposure, exposure) ==
    RMax(RMin(new_exposure, MaxExposure), MinExposure)

\* clamped_exposure = min(new_exposure, max_exposure, exposure * delta)
\* clamped_exposure = max(clamped_exposure, min_exposure, exposure / delta)
ClampedExposure(new_exposure, exposure) ==
    LET upper == RMin(RMin(new_exposure, MaxExposure),
                      Rat(exposure[1] * MaxExposureDelta, exposure[2]))
    IN  RMax(RMax(upper, MinExposure),
             Rat(exposure[1], exposure[2] * MaxExposureDelta))

\* The state after the evening / dawn rules of received_frame
StateAfterFrame(is_evening, state, counts, new_exposure, clamped_exposure) ==
    IF is_evening
    THEN IF clamped_exposure = MaxExposure /\ counts < MinSaveCounts
         THEN AutoFlatComplete
         ELSE IF state = AutoFlatWaiting /\ counts > MinSaveCounts
                   /\ RLess(MinSaveExposure, new_exposure)
         THEN AutoFlatSaving
         ELSE state
    ELSE IF RLess(clamped_exposure, MinSaveExposure)
         THEN AutoFlatComplete
         ELSE IF state = AutoFlatWaiting /\ counts > MinSaveCounts
         THEN AutoFlatSaving
         ELSE state

\* headers['EXPTIME'] and headers['MEDCNTS'] of the frames
ExposureInputs == {<<1, 10>>, <<1, 2>>, <<1, 1>>, <<5, 1>>, <<10, 1>>, <<30, 1>>}
MedCntsInputs == {0, 1300, 5000, 16300, 17000, 31300, 65000}

\* headers['EXPTIME'] of any frame of the camera that the pipeline reports,
\* also one that was not taken at the request of this action
HeaderExposureInputs == ExposureInputs \cup {<<1, 100>>, <<100, 1>>}

\* No camera is taking flats
FlatsIdle ==
    /\ c_evening = TRUE
    /\ c_state = AutoFlatWaiting
    /\ c_archive = FALSE
    /\ c_exposure = NoExposure
    /\ c_counts = 0
    /\ c_next = NoExposure
    /\ c_clamped = NoExposure
    /\ c_set_archive = <<>>
    /\ c_frames = 0

\* Nothing but the dome controller and an action is in use
\* The cameras of the SkyFlats action, in the order of self._cameras
CameraOrder == <<"cam1", "cam2">>
Cameras == {CameraOrder[i] : i \in 1..Len(CameraOrder)}

\* CameraWrapper.__init__ for every camera; no call is in progress
SkyIdle ==
    /\ f_state = [c \in Cameras |-> AutoFlatWaiting]
    /\ a_cam = 0
    /\ a_success = FALSE
    /\ run_aborted = {}
    /\ x_cam = 0
    /\ abort_returned = FALSE
    /\ rpc = "idle"
    /\ r_cam = CameraOrder[1]
    /\ r_last = AutoFlatWaiting
    /\ r_dec = "none"

\* _wait_condition = threading.Condition(): nobody holds it
ExtIdle == cond = "free" /\ SkyIdle

LibIdle == ScheduleIdle /\ FlatsIdle /\ ExtIdle

\* ------------------------------------------------------------------- Init
\* No action runs
ActionsIdle ==
    /\ a_kind = NoAction
    /\ onsky = TRUE
    /\ apc = "done"
    /\ a_status = Incomplete
    /\ aborted = FALSE
    /\ dome_is_open = FALSE
    /\ a_notified = FALSE
    /\ wcs_status = "Inactive"
    /\ attempt = 0
    /\ stop_hit = FALSE
    /\ xpc = "idle"
    /\ x_late = FALSE
    /\ aborts = 0
    /\ stops = 0

\* DomeController.__init__
DomeInit ==
    /\ mode = Manual
    /\ requested_mode = Manual
    /\ requested_open_date = None
    /\ requested_close_date = None
    /\ status = Closed
    /\ environment_safe = FALSE
    /\ environment_safe_date = DateMin
    /\ daemon_error = FALSE
    /\ lock = "free"
    /\ notified = FALSE
    /\ waited = 0
    /\ now = 0
    /\ lpc = "snap"
    /\ l_requested_mode = Manual
    /\ current_date = 0
    /\ requested_status = Closed
    /\ environment_safe_age = 0
    /\ l_status = Closed
    /\ mode_ret = NoCall
    /\ hb_ret = NoCall
    /\ cmds = <<>>
    /\ raised = FALSE
    /\ polled_hb = "Active"
    /\ opc = "idle"
    /\ o_mode = Manual
    /\ o_dates = <<>>
    /\ epc = "idle"
    /\ e_safe = FALSE
    /\ e_now = 0
    /\ calls = 0
    /\ req_since_error = FALSE
    /\ e_overlap = FALSE
    /\ safe_ping_date = DateMin

\* The dome controller after construction, with no action running
Init == DomeInit /\ ActionsIdle /\ LibIdle

\* The clock advances; a wait in progress lasts that much longer
Tick ==
    /\ now < MaxTicks * TimeStep
    /\ now' = now + TimeStep
    /\ waited' = IF lpc = "waiting" /\ waited < LoopDelay
                 THEN waited + TimeStep ELSE waited
    /\ UNCHANGED <<mode, requested_mode, win, status, envsafe, daemon_error,
                   lock, notified, loopvars, opvars, envvars, histvars, calls,
                   actvars, libvars>>

\* ------------------------------------------------------ the loop: snapshot
\* What the steps of the snapshot leave alone
SnapFrame ==
    UNCHANGED <<mode, requested_mode, win, status, envsafe, daemon_error,
                notified, waited, now, l_status, mode_ret, hb_ret, cmds, raised,
                polled_hb, opvars, envvars, histvars, calls, actvars, libvars>>

\* with self._lock: requested_mode = ...; current_date = utcnow()
LoopSnapBegin ==
    /\ lpc = "snap"
    /\ lock = "free"
    /\ lock' = "loop"
    /\ l_requested_mode' = requested_mode
    /\ current_date' = now
    /\ lpc' = "o1"
    /\ UNCHANGED <<requested_status, environment_safe_age>>
    /\ SnapFrame

\* One step of the snapshot that only moves the loop on
SnapGoto(from, to) ==
    /\ lpc = from
    /\ lpc' = to
    /\ UNCHANGED <<lock, l_requested_mode, current_date, requested_status,
                   environment_safe_age>>
    /\ SnapFrame

\* A TypeError leaves `with self._lock` and the loop: the thread ends
SnapDie(from) ==
    /\ lpc = from
    /\ lpc' = "dead"
    /\ lock' = "free"
    /\ UNCHANGED <<l_requested_mode, current_date, requested_status,
                   environment_safe_age>>
    /\ SnapFrame

\* self._requested_open_date is not None
LoopSnapOpenSet ==
    SnapGoto("o1", IF requested_open_date # None THEN "c1" ELSE "age")

\* self._requested_close_date is not None
LoopSnapCloseSet ==
    SnapGoto("c1", IF requested_close_date # None THEN "o2" ELSE "age")

\* current_date > self._requested_open_date (a TypeError against None)
LoopSnapAfterOpen ==
    \/ /\ requested_open_date # None
       /\ SnapGoto("o2", IF current_date > requested_open_date
                         THEN "c2" ELSE "age")
    \/ /\ requested_open_date = None
       /\ SnapDie("o2")

\* current_date < self._requested_close_date (a TypeError against None)
LoopSnapBeforeClose ==
    \/ /\ requested_close_date # None
       /\ SnapGoto("c2", IF current_date < requested_close_date
                         THEN "safe" ELSE "age")
    \/ /\ requested_close_date = None
       /\ SnapDie("c2")

\* self._environment_safe
LoopSnapSafe ==
    SnapGoto("safe", IF environment_safe THEN "d1" ELSE "age")

\* self._environment_safe_date > self._requested_open_date (a TypeError
\* against None); requested_status = Open if every test passed
LoopSnapSafeDate ==
    \/ /\ requested_open_date # None
       /\ lpc = "d1"
       /\ lpc' = "age"
       /\ requested_status' =
            IF environment_safe_date > requested_open_date THEN Open ELSE Closed
       /\ UNCHANGED <<lock, l_requested_mode, current_date,
                      environment_safe_age>>
       /\ SnapFrame
    \/ /\ requested_open_date = None
       /\ SnapDie("d1")

\* environment_safe_age = (current_date - self._environment_safe_date); the
\* lock is released, and the loop goes on to the section that applies
LoopSnapEnd ==
    /\ lpc = "age"
    /\ environment_safe_age' = current_date - environment_safe_date
    /\ lock' = "free"
    /\ lpc' = PcAfterSnapshot(mode, l_requested_mode)
    /\ UNCHANGED <<l_requested_mode, current_date, requested_status>>
    /\ SnapFrame

\* ------------------------------------------------- the loop: mode changes
\* Both except handlers: 'Lost contact' is logged once, and the mode is set
LoopExcept ==
    /\ daemon_error' = TRUE
    /\ mode' = ExceptMode
    /\ raised' = TRUE

\* What every step of the loop's two try blocks leaves alone
LoopFrame ==
    UNCHANGED <<requested_mode, win, envsafe, lock, notified, waited, now,
                l_requested_mode, current_date, requested_status,
                environment_safe_age, opvars, envvars, e_overlap, safe_ping_date,
                calls,
                actvars, libvars>>

\* request_mode calls are counted from the moment mode becomes Error
ReqHistory ==
    req_since_error' = (mode = Error /\ mode' = Error /\ req_since_error)

\* if requested_mode != self._mode and not auto_failure: set_heartbeat_timer,
\* then __set_mode with the result (or the except handler)
LoopModeChange ==
    /\ lpc = "mode"
    /\ lock = "free"
    /\ \E ret \in {Succeeded, Failed, Raised} :
         /\ mode_ret' = ret
         /\ cmds' = Append(cmds, ModeChangeCall(l_requested_mode))
         /\ IF ret = Raised
            THEN LoopExcept
            ELSE /\ mode' = ModeAfterChange(l_requested_mode, ret)
                 /\ UNCHANGED <<daemon_error, raised>>
    /\ ReqHistory
    /\ lpc' = PcAfterMode(mode')
    /\ UNCHANGED <<status, l_status, polled_hb, hb_ret>>
    /\ LoopFrame

\* ------------------------------------------------ the loop: Automatic mode
\* status = DomeStatus.parse(dome.status()); self.__set_status(status); or
\* the except handler
LoopPoll ==
    /\ lpc = "auto"
    /\ lock = "free"
    /\ cmds' = Append(cmds, "status")
    /\ \/ /\ LoopExcept
          /\ lpc' = "expiry"
          /\ UNCHANGED <<status, l_status, polled_hb>>
       \/ \E hb \in HeartbeatStatuses, east \in ShutterStatuses,
             west \in ShutterStatuses :
            /\ l_status' = DomeStatusParse(hb, east, west)
            /\ status' = l_status'
            /\ polled_hb' = hb
            /\ lpc' = PcAfterPoll(l_status', requested_status,
                                  environment_safe_age)
            /\ UNCHANGED <<mode, daemon_error, raised>>
    /\ ReqHistory
    /\ UNCHANGED <<mode_ret, hb_ret>>
    /\ LoopFrame

\* if status == DomeStatus.Timeout: __set_mode(Error)
LoopTimeout ==
    /\ lpc = "timeout"
    /\ lock = "free"
    /\ mode' = Error
    /\ ReqHistory
    /\ lpc' = "expiry"
    /\ UNCHANGED <<status, daemon_error, l_status, mode_ret, hb_ret, cmds,
                   raised, polled_hb>>
    /\ LoopFrame

\* 'sending heartbeat ping before closing/opening': set_heartbeat_timer, its
\* return value unused; or the except handler
LoopRearm ==
    /\ lpc = "rearm"
    /\ cmds' = Append(cmds, "set_heartbeat_timer")
    /\ \/ /\ lock = "free"
          /\ LoopExcept
          /\ lpc' = "expiry"
          /\ UNCHANGED hb_ret
       \/ /\ \E ret \in {Succeeded, Failed} : hb_ret' = ret
          /\ lpc' = "moving"
          /\ UNCHANGED <<mode, daemon_error, raised>>
    /\ ReqHistory
    /\ UNCHANGED <<status, l_status, mode_ret, polled_hb>>
    /\ LoopFrame

\* 'sending heartbeat ping': set_heartbeat_timer, its return value unused; or
\* the except handler
LoopKeepAlive ==
    /\ lpc = "keepalive"
    /\ cmds' = Append(cmds, "set_heartbeat_timer")
    /\ \/ /\ lock = "free"
          /\ LoopExcept
          /\ UNCHANGED hb_ret
       \/ /\ \E ret \in {Succeeded, Failed} : hb_ret' = ret
          /\ UNCHANGED <<mode, daemon_error, raised>>
    /\ ReqHistory
    /\ lpc' = "expiry"
    /\ UNCHANGED <<status, l_status, mode_ret, polled_hb>>
    /\ LoopFrame

\* self.__set_status(DomeStatus.Moving)
LoopMoving ==
    /\ lpc = "moving"
    /\ lock = "free"
    /\ status' = Moving
    /\ lpc' = "cmd"
    /\ UNCHANGED <<mode, daemon_error, l_status, mode_ret, hb_ret, cmds,
                   raised, polled_hb, req_since_error>>
    /\ LoopFrame

\* ret = dome.open_shutters / close_shutters, then __set_status(requested) on
\* Succeeded and __set_mode(Error) otherwise; or the except handler
LoopCommand ==
    /\ lpc = "cmd"
    /\ lock = "free"
    /\ cmds' = Append(cmds, ShutterCall(requested_status))
    /\ \E ret \in {Succeeded, Failed, Raised} :
         CASE ret = Succeeded ->
                /\ status' = requested_status
                /\ UNCHANGED <<mode, daemon_error, raised>>
           [] ret = Failed ->
                /\ mode' = Error
                /\ UNCHANGED <<status, daemon_error, raised>>
           [] OTHER ->
                /\ LoopExcept
                /\ UNCHANGED status
    /\ ReqHistory
    /\ lpc' = "expiry"
    /\ UNCHANGED <<l_status, mode_ret, hb_ret, polled_hb>>
    /\ LoopFrame

\* ------------------------------------------- the loop: expiry and the wait
\* What the steps of the loop after its try blocks leave alone
TailFrame ==
    UNCHANGED <<mode, requested_mode, status, envsafe, daemon_error, lock,
                now, l_requested_mode, opvars, envvars, histvars, calls,
                actvars, libvars>>

\* The locals of a tick are not read after its try blocks
TickLocalsReset ==
    /\ requested_status' = Closed
    /\ environment_safe_age' = 0
    /\ l_status' = Closed
    /\ mode_ret' = NoCall
    /\ hb_ret' = NoCall
    /\ cmds' = <<>>
    /\ raised' = FALSE
    /\ polled_hb' = "Active"

\* if self._requested_close_date ...
LoopExpiryCheck ==
    /\ lpc = "expiry"
    /\ lpc' = IF requested_close_date # None THEN "exp2" ELSE "wait"
    /\ TickLocalsReset
    /\ UNCHANGED <<win, notified, waited, current_date>>
    /\ TailFrame

\* ... and current_date > self._requested_close_date (a TypeError against
\* None, outside every try block: the thread ends)
LoopExpiryCompare ==
    /\ lpc = "exp2"
    /\ lpc' = IF requested_close_date = None THEN "dead"
              ELSE IF current_date > requested_close_date THEN "clr1"
              ELSE "wait"
    /\ UNCHANGED <<win, notified, waited, current_date, ticklocals>>
    /\ TailFrame

\* self.clear_open_window(): self._requested_open_date = None
LoopClearOpen ==
    /\ lpc = "clr1"
    /\ requested_open_date' = ClearedOpenDate
    /\ lpc' = "clr2"
    /\ UNCHANGED <<requested_close_date, notified, waited, current_date,
                   ticklocals>>
    /\ TailFrame

\* self._requested_close_date = None; __shortcut_loop_wait finds no waiter
LoopClearClose ==
    /\ lpc = "clr2"
    /\ requested_close_date' = ClearedCloseDate
    /\ lpc' = "wait"
    /\ UNCHANGED <<requested_open_date, notified, waited, current_date,
                   ticklocals>>
    /\ TailFrame

\* with self._wait_condition: self._wait_condition.wait(self._loop_delay)
LoopWaitBegin ==
    /\ lpc = "wait"
    /\ lpc' = "waiting"
    /\ notified' = FALSE
    /\ waited' = 0
    /\ current_date' = 0
    /\ UNCHANGED <<win, ticklocals>>
    /\ TailFrame

\* The wait returns: notify_all was called, or loop_delay has passed
LoopWake ==
    /\ lpc = "waiting"
    /\ notified \/ waited >= LoopDelay
    /\ lpc' = "snap"
    /\ notified' = FALSE
    /\ waited' = 0
    /\ UNCHANGED <<win, current_date, ticklocals>>
    /\ TailFrame

\* __shortcut_loop_wait: notify_all wakes the loop only if it is waiting
ShortcutLoopWait == notified' = (notified \/ lpc = "waiting")

\* ------------------------------------------------- the operator's thread
\* A public operation that writes the mode itself
OpFrameWritesMode ==
    /\ mode' = requested_mode
    /\ UNCHANGED <<status, envsafe, daemon_error, waited, now, loopvars,
                   envvars, actvars, libvars>>

\* What the operator's steps leave alone
OpFrame ==
    UNCHANGED <<mode, status, envsafe, daemon_error, waited, now, loopvars,
                envvars, actvars, libvars>>

\* request_mode: with self._lock
OpRequestModeBegin ==
    /\ opc = "idle"
    /\ calls < MaxCalls
    /\ calls' = calls + 1
    /\ lock = "free"
    /\ \E m \in RequestableModes : o_mode' = m
    /\ lock' = "op"
    /\ opc' = "rm"
    /\ UNCHANGED <<requested_mode, win, notified, o_dates, histvars>>
    /\ OpFrame

\* self._requested_mode = mode; self.__shortcut_loop_wait(); the lock is
\* released
OpRequestModeWrite ==
    /\ opc = "rm"
    /\ requested_mode' = o_mode
    /\ ShortcutLoopWait
    /\ lock' = "free"
    /\ opc' = "idle"
    /\ req_since_error' = (mode = Error)
    /\ UNCHANGED <<win, o_mode, o_dates, calls, e_overlap, safe_ping_date>>
    /\ OpFrame

\* set_open_window without the isinstance checks
ValidWindowLenOnly(dates) == Len(dates) >= 2

\* set_open_window: the two checks of its argument
ValidWindow(dates) ==
    /\ Len(dates) >= 2
    /\ dates[1] # NotADate
    /\ dates[2] # NotADate

\* set_open_window returns False for an empty, short or ill-typed argument
OpSetWindowReject ==
    /\ opc = "idle"
    /\ calls < MaxCalls
    /\ calls' = calls + 1
    /\ \E dates \in WindowInputs : ~ValidWindow(dates)
    /\ opc' = "ret_false"
    /\ UNCHANGED <<requested_mode, win, lock, notified, o_mode, o_dates,
                   histvars>>
    /\ OpFrame

\* set_open_window: with self._lock
OpSetWindowBegin ==
    /\ opc = "idle"
    /\ calls < MaxCalls
    /\ calls' = calls + 1
    /\ lock = "free"
    /\ \E dates \in WindowInputs :
         /\ ValidWindow(dates)
         /\ o_dates' = dates
    /\ lock' = "op"
    /\ opc' = "sw_o"
    /\ UNCHANGED <<requested_mode, win, notified, o_mode, histvars>>
    /\ OpFrame

\* self._requested_open_date = dates[0]
OpSetWindowOpen ==
    /\ opc = "sw_o"
    /\ requested_open_date' = o_dates[1]
    /\ opc' = "sw_c"
    /\ e_overlap' = (e_overlap \/ epc # "idle")
    /\ UNCHANGED safe_ping_date
    /\ UNCHANGED <<requested_mode, requested_close_date, lock, notified,
                   o_mode, o_dates, calls, req_since_error>>
    /\ OpFrame

\* self._requested_close_date = dates[1]; self.__shortcut_loop_wait(); the
\* lock is released; return True
OpSetWindowClose ==
    /\ opc = "sw_c"
    /\ requested_close_date' = o_dates[2]
    /\ ShortcutLoopWait
    /\ lock' = "free"
    /\ opc' = "ret_true"
    /\ o_dates' = <<>>
    /\ e_overlap' = (e_overlap \/ epc # "idle")
    /\ UNCHANGED safe_ping_date
    /\ UNCHANGED <<requested_mode, requested_open_date, o_mode, calls,
                   req_since_error>>
    /\ OpFrame

\* set_open_window has returned
OpSetWindowReturn ==
    /\ opc \in {"ret_true", "ret_false"}
    /\ opc' = "idle"
    /\ UNCHANGED <<requested_mode, win, lock, notified, o_mode, o_dates,
                   calls, histvars>>
    /\ OpFrame

\* clear_open_window: self._requested_open_date = None, without the lock
OpClearOpen ==
    /\ opc = "idle"
    /\ calls < MaxCalls
    /\ calls' = calls + 1
    /\ requested_open_date' = ClearedOpenDate
    /\ opc' = "cw_c"
    /\ UNCHANGED <<requested_mode, requested_close_date, lock, notified,
                   o_mode, o_dates, histvars>>
    /\ OpFrame

\* self._requested_close_date = None; self.__shortcut_loop_wait()
OpClearClose ==
    /\ opc = "cw_c"
    /\ requested_close_date' = ClearedCloseDate
    /\ ShortcutLoopWait
    /\ opc' = "idle"
    /\ UNCHANGED <<requested_mode, requested_open_date, lock, o_mode, o_dates,
                   calls, histvars>>
    /\ OpFrame

\* status(): with self._lock
OpStatusBegin ==
    /\ opc = "idle"
    /\ calls < MaxCalls
    /\ calls' = calls + 1
    /\ lock = "free"
    /\ lock' = "op"
    /\ opc' = "st"
    /\ UNCHANGED <<requested_mode, win, notified, o_mode, o_dates, histvars>>
    /\ OpFrame

\* status() reads the fields and returns; the lock is released
OpStatusEnd ==
    /\ opc = "st"
    /\ lock' = "free"
    /\ opc' = "idle"
    /\ UNCHANGED <<requested_mode, win, notified, o_mode, o_dates, calls,
                   histvars>>
    /\ OpFrame

\* ----------------------------------------------- the environment's thread
\* What the steps of notify_environment_status leave alone
EnvFrame ==
    UNCHANGED <<mode, requested_mode, status, daemon_error, lock, waited, now,
                loopvars, opvars, req_since_error, actvars, libvars>>

\* if not is_safe and self._requested_open_date and now > ...: the clear is
\* decided on the date read and the local now
NotifyClears(is_safe, t, open_date) == ~is_safe /\ t > open_date

\* now = utcnow(); self._environment_safe = is_safe
EnvNotifyBegin ==
    /\ epc = "idle"
    /\ calls < MaxCalls
    /\ calls' = calls + 1
    /\ \E is_safe \in BOOLEAN :
         /\ e_safe' = is_safe
         /\ environment_safe' = is_safe
         /\ safe_ping_date' = IF is_safe THEN now ELSE safe_ping_date
    /\ e_now' = now
    /\ epc' = "n_date"
    /\ UNCHANGED <<win, environment_safe_date, notified, e_overlap>>
    /\ EnvFrame

\* self._environment_safe_date = now
EnvNotifyDate ==
    /\ epc = "n_date"
    /\ environment_safe_date' = e_now
    /\ epc' = IF e_safe THEN "n_ret" ELSE "n_chk1"
    /\ UNCHANGED <<win, environment_safe, notified, e_safe, e_now, calls,
                   e_overlap, safe_ping_date>>
    /\ EnvFrame

\* not is_safe and self._requested_open_date ...
EnvNotifyWindowSet ==
    /\ epc = "n_chk1"
    /\ epc' = IF requested_open_date # None THEN "n_chk2" ELSE "n_ret"
    /\ UNCHANGED <<win, envsafe, notified, e_safe, e_now, calls,
                   e_overlap, safe_ping_date>>
    /\ EnvFrame

\* ... and now > self._requested_open_date (a TypeError against None: the
\* call raises)
EnvNotifyAfterOpen ==
    /\ epc = "n_chk2"
    /\ epc' = IF requested_open_date = None THEN "n_raised"
              ELSE IF NotifyClears(e_safe, e_now, requested_open_date)
              THEN "n_clr1"
              ELSE "n_ret"
    /\ UNCHANGED <<win, envsafe, notified, e_safe, e_now, calls,
                   e_overlap, safe_ping_date>>
    /\ EnvFrame

\* self.clear_open_window(): self._requested_open_date = None
EnvClearOpen ==
    /\ epc = "n_clr1"
    /\ requested_open_date' = ClearedOpenDate
    /\ epc' = "n_clr2"
    /\ UNCHANGED <<requested_close_date, envsafe, notified, e_safe, e_now,
                   calls, e_overlap, safe_ping_date>>
    /\ EnvFrame

\* self._requested_close_date = None; self.__shortcut_loop_wait()
EnvClearClose ==
    /\ epc = "n_clr2"
    /\ requested_close_date' = ClearedCloseDate
    /\ ShortcutLoopWait
    /\ epc' = "n_ret_clr"
    /\ UNCHANGED <<requested_open_date, envsafe, e_safe, e_now, calls,
                   e_overlap, safe_ping_date>>
    /\ EnvFrame

\* notify_environment_status returns, or has raised
EnvNotifyReturn ==
    /\ epc \in {"n_ret", "n_ret_clr", "n_raised"}
    /\ epc' = "idle"
    /\ e_safe' = FALSE
    /\ e_now' = 0
    /\ e_overlap' = FALSE
    /\ UNCHANGED safe_ping_date
    /\ UNCHANGED <<win, envsafe, notified, calls>>
    /\ EnvFrame

\* ------------------------------------------------------------------- Next
Loop ==
    \/ LoopSnapBegin \/ LoopSnapOpenSet \/ LoopSnapCloseSet
    \/ LoopSnapAfterOpen \/ LoopSnapBeforeClose \/ LoopSnapSafe
    \/ LoopSnapSafeDate \/ LoopSnapEnd
    \/ LoopModeChange \/ LoopPoll
    \/ LoopTimeout \/ LoopRearm \/ LoopKeepAlive
    \/ LoopMoving \/ LoopCommand
    \/ LoopExpiryCheck \/ LoopExpiryCompare \/ LoopClearOpen \/ LoopClearClose
    \/ LoopWaitBegin \/ LoopWake

Operator ==
    \/ OpRequestModeBegin \/ OpRequestModeWrite
    \/ OpSetWindowReject \/ OpSetWindowBegin \/ OpSetWindowOpen
    \/ OpSetWindowClose \/ OpSetWindowReturn
    \/ OpClearOpen \/ OpClearClose
    \/ OpStatusBegin \/ OpStatusEnd

Environment ==
    \/ EnvNotifyBegin \/ EnvNotifyDate \/ EnvNotifyWindowSet
    \/ EnvNotifyAfterOpen \/ EnvClearOpen \/ EnvClearClose \/ EnvNotifyReturn

Next == Tick \/ Loop \/ Operator \/ Environment

Spec == Init /\ [][Next]_vars

\* ------------------------------------------------- the timed specification
\* The loop from a controller for which Automatic mode and a window
\* {open: T0, close: T1} have been requested before its first tick, with the
\* environment thread as the only caller.  Time is counted in seconds and
\* passes only while the loop waits: the steps of a tick and of
\* notify_environment_status take no time, and the wait ends as soon as it is
\* notified or loop_delay seconds have passed.
TimedWindow == <<9, 25>>
T0 == TimedWindow[1]
T1 == TimedWindow[2]

InitTimed ==
    /\ mode = Manual
    /\ requested_mode = Automatic
    /\ requested_open_date = T0
    /\ requested_close_date = T1
    /\ status = Closed
    /\ environment_safe = FALSE
    /\ environment_safe_date = DateMin
    /\ daemon_error = FALSE
    /\ lock = "free"
    /\ notified = FALSE
    /\ waited = 0
    /\ now = 0
    /\ lpc = "snap"
    /\ l_requested_mode = Manual
    /\ current_date = 0
    /\ TickLocalsInit
    /\ opc = "idle"
    /\ o_mode = Manual
    /\ o_dates = <<>>
    /\ epc = "idle"
    /\ e_safe = FALSE
    /\ e_now = 0
    /\ calls = MaxCalls - 2
    /\ req_since_error = FALSE
    /\ e_overlap = FALSE
    /\ safe_ping_date = DateMin
    /\ ActionsIdle
    /\ LibIdle

\* One second passes while the loop waits (or after its thread has ended)
TickSecond ==
    /\ now < MaxSeconds
    /\ epc = "idle"
    /\ \/ lpc = "waiting" /\ ~notified /\ waited < LoopDelay
       \/ lpc = "dead"
    /\ now' = now + 1
    /\ waited' = IF lpc = "waiting" THEN waited + 1 ELSE waited
    /\ UNCHANGED <<mode, requested_mode, win, status, envsafe, daemon_error,
                   lock, notified, loopvars, opvars, envvars, histvars, calls,
                   actvars, libvars>>

NextTimed == TickSecond \/ Loop \/ Environment

SpecTimed == InitTimed /\ [][NextTimed]_vars

\* ----------------------------------------------------- telescope actions
\* One TelescopeAction runs: its run_thread on one thread, and abort,
\* dome_status_changed and received_frame called from another.  The base
\* class keeps status (initially Incomplete), aborted (set by abort) and
\* dome_is_open (set by dome_status_changed).  A wait on the action's
\* condition ends when it is notified or when its timeout passes.

\* The first statement of run_thread
FirstPc(kind) ==
    CASE kind = SlewTelescope -> "slew"
      [] kind = ObserveAltAzField -> "configure"
      [] OTHER -> "status"

\* The positions at which run_thread waits on self._wait_condition
WaitingPcs == {"startwaiting", "acqwaiting", "wcswaiting"}

InitAction ==
    /\ DomeInit
    /\ LibIdle
    /\ a_kind \in ActionKinds
    /\ onsky \in (IF a_kind = ObserveAltAzField THEN BOOLEAN ELSE {TRUE})
    /\ apc = FirstPc(a_kind)
    /\ a_status = Incomplete
    /\ aborted = FALSE
    /\ dome_is_open \in BOOLEAN
    /\ a_notified = FALSE
    /\ wcs_status = "Inactive"
    /\ attempt = 0
    /\ stop_hit = FALSE
    /\ xpc = "idle"
    /\ x_late = FALSE
    /\ aborts = 0
    /\ stops = 0

\* What a step of run_thread leaves alone
RunFrame ==
    UNCHANGED <<a_kind, onsky, aborted, dome_is_open, xpc, x_late, aborts,
                stops, domevars, libvars>>

\* A step of run_thread from one position to another that leaves the status
\* st
RunStep(from, to, st) ==
    /\ apc = from
    /\ apc' = to
    /\ a_status' = st
    /\ a_notified' = (a_notified /\ to \notin WaitingPcs)
    /\ UNCHANGED <<wcs_status, attempt, stop_hit>>
    /\ RunFrame

\* ObserveAltAzField.__set_failed_status
SetFailedStatus == IF aborted THEN Complete ELSE ActionError

\* The slew command is sent and run_thread blocks in it
SlewBegin ==
    /\ apc = "slew"
    /\ apc' = "slewing"
    /\ stop_hit' = FALSE
    /\ UNCHANGED <<a_status, a_notified, wcs_status, attempt>>
    /\ RunFrame

\* SlewTelescope.run_thread: Error if tel_slew_radec failed, else Complete
SlewTelescopeEnd ==
    /\ a_kind = SlewTelescope
    /\ \E ok \in BOOLEAN :
         RunStep("slewing", "done", IF ok THEN Complete ELSE ActionError)

\* ObserveAltAzField.run_thread: configure_pipeline
ObserveConfigure ==
    /\ a_kind = ObserveAltAzField
    /\ \E ok \in BOOLEAN :
         IF ok THEN RunStep("configure", "startwait", a_status)
         ELSE RunStep("configure", "done", SetFailedStatus)

\* __wait_until_or_aborted: the loop test, then the wait
ObserveStartWaitCheck ==
    /\ a_kind = ObserveAltAzField
    /\ \E reached \in BOOLEAN :
         IF reached \/ aborted \/ (onsky /\ ~dome_is_open)
         THEN RunStep("startwait", "domecheck", a_status)
         ELSE RunStep("startwait", "startwaiting", a_status)

\* the wait of __wait_until_or_aborted returns
ObserveStartWaitWake ==
    /\ a_kind = ObserveAltAzField
    /\ RunStep("startwaiting", "startwait", a_status)

\* if onsky and not self.dome_is_open: Error; if acquire_start > end: Complete
ObserveDomeCheck ==
    /\ a_kind = ObserveAltAzField
    /\ IF onsky /\ ~dome_is_open
       THEN RunStep("domecheck", "done", ActionError)
       ELSE \E late \in BOOLEAN :
              IF late THEN RunStep("domecheck", "done", Complete)
              ELSE RunStep("domecheck", "slew", a_status)

\* mount_slew_altaz returned
ObserveSlewEnd ==
    /\ a_kind = ObserveAltAzField
    /\ \E ok \in BOOLEAN :
         IF ok THEN RunStep("slewing", "take", a_status)
         ELSE RunStep("slewing", "done", SetFailedStatus)

\* cam_take_images, then the first wait of the acquisition loop
ObserveTakeImages ==
    /\ a_kind = ObserveAltAzField
    /\ \E ok \in BOOLEAN :
         IF ok THEN RunStep("take", "acqwaiting", a_status)
         ELSE RunStep("take", "done", ActionError)

\* self._wait_condition.wait(10) returns
ObserveAcquireWake ==
    /\ a_kind = ObserveAltAzField
    /\ RunStep("acqwaiting", "acq1", a_status)

\* if self.aborted or Time.now() > self._end_date: status = Complete
ObserveAcquireEnded ==
    /\ a_kind = ObserveAltAzField
    /\ \E late \in BOOLEAN :
         RunStep("acq1", "acq2",
                 IF aborted \/ late THEN Complete ELSE a_status)

\* if onsky and not self.dome_is_open: status = Error
ObserveAcquireDome ==
    /\ a_kind = ObserveAltAzField
    /\ RunStep("acq2", "acq3",
               IF onsky /\ ~dome_is_open THEN ActionError ELSE a_status)

\* if self.status != Incomplete: break
ObserveAcquireExit ==
    /\ a_kind = ObserveAltAzField
    /\ RunStep("acq3",
               IF a_status # Incomplete THEN "camstop" ELSE "acqwaiting",
               a_status)

\* cam_stop, and run_thread returns
ObserveCamStop ==
    /\ a_kind = ObserveAltAzField
    /\ RunStep("camstop", "done", a_status)

\* PointingModelPointing.run_thread: mount_status
PointingMountStatus ==
    /\ a_kind = PointingModelPointing
    /\ \E ok \in BOOLEAN :
         IF ok THEN RunStep("status", "slew", a_status)
         ELSE RunStep("status", "done", ActionError)

\* mount_slew_radec returned: a failed slew ends the action Complete
PointingSlewEnd ==
    /\ a_kind = PointingModelPointing
    /\ \E ok \in BOOLEAN :
         IF ok THEN RunStep("slewing", "domecheck", a_status)
         ELSE RunStep("slewing", "done", Complete)

\* if not self.dome_is_open: Complete
PointingDomeCheck ==
    /\ a_kind = PointingModelPointing
    /\ IF dome_is_open THEN RunStep("domecheck", "configure", a_status)
       ELSE RunStep("domecheck", "done", Complete)

\* configure_pipeline; attempt = 1
PointingConfigure ==
    /\ a_kind = PointingModelPointing
    /\ apc = "configure"
    /\ \E ok \in BOOLEAN :
         /\ apc' = IF ok THEN "loop" ELSE "done"
         /\ a_status' = IF ok THEN a_status ELSE ActionError
         /\ attempt' = IF ok THEN 1 ELSE attempt
    /\ UNCHANGED <<a_notified, wcs_status, stop_hit>>
    /\ RunFrame

\* while not self.aborted and self.dome_is_open: when the test fails
\* run_thread returns, and nothing is written to status
PointingLoopHead ==
    /\ a_kind = PointingModelPointing
    /\ RunStep("loop",
               IF ~aborted /\ dome_is_open THEN "take" ELSE "done",
               a_status)

\* self._wcs_status = WaitingForWCS; cam_take_images
PointingTakeImage ==
    /\ a_kind = PointingModelPointing
    /\ apc = "take"
    /\ \E ok \in BOOLEAN :
         /\ apc' = IF ok THEN "wcscheck" ELSE "done"
         /\ a_status' = IF ok THEN a_status ELSE ActionError
    /\ wcs_status' = "WaitingForWCS"
    /\ UNCHANGED <<a_notified, attempt, stop_hit>>
    /\ RunFrame

\* with self._wait_condition: leave the wait loop if the frame is overdue or
\* the WCS result has arrived, else wait
PointingWcsCheck ==
    /\ a_kind = PointingModelPointing
    /\ \E overdue \in BOOLEAN :
         IF overdue \/ wcs_status # "WaitingForWCS"
         THEN RunStep("wcscheck", "solve", a_status)
         ELSE RunStep("wcscheck", "wcswaiting", a_status)

\* the wait for the frame returns
PointingWcsWake ==
    /\ a_kind = PointingModelPointing
    /\ RunStep("wcswaiting", "wcscheck", a_status)

\* The attempt failed or timed out: the action ends Complete after the last
\* attempt, else the loop goes round; or the point is added and the action
\* ends Complete
PointingSolve ==
    /\ a_kind = PointingModelPointing
    /\ apc = "solve"
    /\ wcs_status' = "Inactive"
    /\ IF wcs_status \in {"WCSFailed", "WaitingForWCS"}
       THEN /\ attempt' = attempt + 1
            /\ apc' = IF attempt' = AttemptLimit THEN "done" ELSE "loop"
            /\ a_status' = IF attempt' = AttemptLimit THEN Complete
                           ELSE a_status
       ELSE /\ apc' = "done"
            /\ a_status' = Complete
            /\ UNCHANGED attempt
    /\ UNCHANGED <<a_notified, stop_hit>>
    /\ RunFrame

\* --------------------------------------------- calls made on the action
\* What a step of a call made on the action leaves alone
CallFrame ==
    UNCHANGED <<a_kind, onsky, apc, a_status, attempt, domevars, libvars>>

\* The classes whose abort sends a stop command to the mount
StopsMount(kind) == kind \in {SlewTelescope, PointingModelPointing}

\* Only PointingModelPointing notifies (mutation of NotifiesCondition)
NotifiesConditionPointingOnly(kind) == kind = PointingModelPointing

\* The classes whose abort and dome_status_changed notify the condition
NotifiesCondition(kind) == kind \in {ObserveAltAzField, PointingModelPointing}

\* with self._wait_condition: self._wait_condition.notify_all()
NotifyAll == a_notified' = (a_notified \/ apc \in WaitingPcs)

\* abort: super().abort() sets aborted
AbortBegin ==
    /\ xpc = "idle"
    /\ a_kind # NoAction
    /\ aborts < MaxAborts
    /\ aborts' = aborts + 1
    /\ aborted' = TRUE
    /\ x_late' = (a_status # Incomplete)
    /\ xpc' = IF StopsMount(a_kind) THEN "abort_stop" ELSE "abort_notify"
    /\ UNCHANGED <<dome_is_open, a_notified, wcs_status, stop_hit, stops>>
    /\ CallFrame

\* abort: tel_stop / mount_stop
AbortStop ==
    /\ xpc = "abort_stop"
    /\ stops' = stops + 1
    /\ stop_hit' = (stop_hit \/ apc = "slewing")
    /\ xpc' = IF NotifiesCondition(a_kind) THEN "abort_notify" ELSE "idle"
    /\ UNCHANGED <<aborted, dome_is_open, a_notified, wcs_status, x_late,
                   aborts>>
    /\ CallFrame

\* abort: notify_all, and the call returns
AbortNotify ==
    /\ xpc = "abort_notify"
    /\ NotifyAll
    /\ xpc' = "idle"
    /\ UNCHANGED <<aborted, dome_is_open, wcs_status, stop_hit, x_late,
                   aborts, stops>>
    /\ CallFrame

\* dome_status_changed: super().dome_status_changed sets dome_is_open
DomeStatusChanged ==
    /\ xpc = "idle"
    /\ a_kind # NoAction
    /\ \E is_open \in BOOLEAN :
         /\ is_open # dome_is_open
         /\ dome_is_open' = is_open
    /\ xpc' = IF NotifiesCondition(a_kind) THEN "dome_notify" ELSE "idle"
    /\ UNCHANGED <<aborted, a_notified, wcs_status, stop_hit, x_late, aborts,
                   stops>>
    /\ CallFrame

\* dome_status_changed: notify_all, and the call returns
DomeNotify ==
    /\ xpc = "dome_notify"
    /\ NotifyAll
    /\ xpc' = "idle"
    /\ UNCHANGED <<aborted, dome_is_open, wcs_status, stop_hit, x_late,
                   aborts, stops>>
    /\ CallFrame

\* PointingModelPointing.received_frame, for a frame the action waits for
ReceivedFrame ==
    /\ xpc = "idle"
    /\ a_kind = PointingModelPointing
    /\ wcs_status = "WaitingForWCS"
    /\ \E solved \in BOOLEAN :
         wcs_status' = IF solved THEN "WCSComplete" ELSE "WCSFailed"
    /\ NotifyAll
    /\ UNCHANGED <<aborted, dome_is_open, stop_hit, xpc, x_late, aborts,
                   stops>>
    /\ CallFrame

RunThread ==
    \/ SlewBegin \/ SlewTelescopeEnd
    \/ ObserveConfigure \/ ObserveStartWaitCheck \/ ObserveStartWaitWake
    \/ ObserveDomeCheck \/ ObserveSlewEnd \/ ObserveTakeImages
    \/ ObserveAcquireWake \/ ObserveAcquireEnded \/ ObserveAcquireDome
    \/ ObserveAcquireExit \/ ObserveCamStop
    \/ PointingMountStatus \/ PointingSlewEnd \/ PointingDomeCheck
    \/ PointingConfigure \/ PointingLoopHead \/ PointingTakeImage
    \/ PointingWcsCheck \/ PointingWcsWake \/ PointingSolve

ActionCalls ==
    \/ AbortBegin \/ AbortStop \/ AbortNotify
    \/ DomeStatusChanged \/ DomeNotify \/ ReceivedFrame

NextAction == RunThread \/ ActionCalls

SpecAction == InitAction /\ [][NextAction]_vars

\* ------------------------------------------------------------- properties
TrippedStatuses == {"TrippedClosing", "TrippedIdle"}

\* The last dome daemon call of this tick
LastCmd == IF cmds = <<>> THEN NoCall ELSE cmds[Len(cmds)]

\* C1: whenever the loop is about to issue open_shutters, mode is Automatic,
\* both window dates are set, the current time lies within
\* [requested_open_date, requested_close_date), environment_safe is true and
\* the last environment ping is no older than requested_open_date.
C1_OpenOnlyWhenAllowed ==
    (lpc = "cmd" /\ requested_status = Open) =>
        /\ mode = Automatic
        /\ requested_open_date # None
        /\ requested_close_date # None
        /\ requested_open_date <= now
        /\ now < requested_close_date
        /\ environment_safe
        /\ environment_safe_date >= requested_open_date

\* C2: when the try blocks of a tick are left and a dome daemon call raised
\* in the tick, mode is Error.
C2_RaiseForcesError ==
    (lpc = "expiry" /\ raised) => mode = Error

\* A tick in Automatic mode whose status poll or later call raised
C2_Witness ==
    /\ lpc = "expiry"
    /\ raised
    /\ \E i \in 1..Len(cmds) : cmds[i] = "status"
    /\ mode = Error

C4_AutomaticOnlyByArm ==
    [][/\ (mode' = Automatic /\ mode # Automatic) =>
            /\ lpc = "mode"
            /\ l_requested_mode = Automatic
            /\ mode_ret' = Succeeded
            /\ LastCmd' = "set_heartbeat_timer"
       /\ (lpc = "mode" /\ lpc' # "mode" /\ l_requested_mode = Automatic
             /\ mode_ret' # Succeeded) =>
            /\ mode' = Error
            /\ lpc' = "expiry"]_vars

\* The switch to Automatic raised and the tick ends in Error
C4_Witness ==
    /\ lpc = "expiry"
    /\ l_requested_mode = Automatic
    /\ mode_ret = Raised
    /\ cmds = <<"set_heartbeat_timer">>
    /\ mode = Error

\* C5: once a poll in Automatic mode reported a tripped heartbeat, the status
\* is Timeout, the tick goes on to set mode Error, and the poll is the last
\* dome daemon call of the tick.
C5_TrippedIsTimeout ==
    polled_hb \in TrippedStatuses =>
        /\ status = Timeout
        /\ l_status = Timeout
        /\ LastCmd = "status"
        /\ \/ lpc = "timeout" /\ mode = Automatic
           \/ lpc = "expiry" /\ mode = Error

\* The tick of a tripped heartbeat has ended
C5_Witness ==
    /\ polled_hb \in TrippedStatuses
    /\ lpc = "expiry"
    /\ mode = Error
    /\ status = Timeout

\* C6: no exception ends the loop thread, and notify_environment_status
\* never raises.
C6_NoEscapingException ==
    lpc # "dead" /\ epc # "n_raised"

C8_WindowSetTogether ==
    (lock = "loop" \/ (lock = "op" /\ opc = "st")) =>
        ((requested_open_date = None) <=> (requested_close_date = None))

\* C9: every write of a public operation to requested_mode, the window dates,
\* environment_safe or environment_safe_date is made by a thread that holds
\* the lock (the environment thread never takes it).
C9_WritesUnderLock ==
    [][/\ (opc' # opc /\ <<requested_mode, win>>' # <<requested_mode, win>>)
            => lock = "op"
       /\ (epc' # epc /\ <<win, envsafe>>' # <<win, envsafe>>)
            => lock = "env"]_vars

\* C10, for request_mode: the loop is never left to wait out its poll delay
\* while the requested mode it last read is not the current one.
C10_NoLostWakeup ==
    (lpc = "waiting" /\ ~notified /\ waited < LoopDelay) =>
        l_requested_mode = requested_mode

\* A step of the loop in which a dome daemon call raises
CallRaises == ~raised /\ raised'

\* 'Lost contact with Dome daemon' is logged by this step: the except
\* handlers log it only if not self._daemon_error
LostContactLogged == CallRaises /\ ~daemon_error

\* C11: mode and status are written, and dome daemon calls are made, only by
\* steps of the loop thread, never by a step of request_mode,
\* set_open_window, clear_open_window, status or notify_environment_status.
C11_OnlyLoopDrivesDome ==
    [][(<<mode, status>>' # <<mode, status>> \/ Len(cmds') > Len(cmds)) =>
          (lpc' # lpc /\ opc' = opc /\ epc' = epc)]_vars

\* request_mode is in progress while the loop is about to move the dome
C11_Witness ==
    /\ opc = "rm"
    /\ lpc = "cmd"
    /\ mode = Automatic
    /\ status = Moving

\* C13: when the expiry check of a tick that started after
\* requested_close_date has cleared the window, both dates are unset.
C13_ExpiredWindowCleared ==
    [][(lpc = "clr2" /\ lpc' = "wait") =>
          (requested_open_date' = None /\ requested_close_date' = None)]_vars

\* C14: when a dome daemon call raises after the mode-change call of the
\* same tick got through (contact goes from working to failing), 'Lost
\* contact with Dome daemon' is logged.
C14_LossLoggedOnEachLoss ==
    [][(lpc = "auto" /\ mode_ret = Succeeded /\ CallRaises) =>
          LostContactLogged]_vars

\* C15: a tick in which a heartbeat ping (the re-arm before a move or the
\* keep-alive) returned a status other than Succeeded ends with mode Error
\* and with that ping as its last dome daemon call.
C15_FailedCommandEndsTick ==
    (lpc = "expiry" /\ hb_ret = Failed) =>
        (mode = Error /\ LastCmd = "set_heartbeat_timer")

\* C16: a set_open_window call that returns False leaves both window dates
\* and the lock alone; one that returns True writes dates[0] and dates[1],
\* both datetimes, while it holds the lock from the first write to the
\* second; a window date is never a value that is not a datetime.
C16_SetOpenWindowChecked ==
    /\ [](requested_open_date # NotADate /\ requested_close_date # NotADate)
    /\ [](opc \in {"sw_o", "sw_c"} => lock = "op")
    /\ [][/\ (opc = "idle" /\ opc' = "ret_false") =>
               UNCHANGED <<win, lock, requested_mode>>
          /\ (opc = "sw_o" /\ opc' = "sw_c") =>
               (requested_open_date' = o_dates[1] /\ lock' = "op")
          /\ (opc = "sw_c" /\ opc' # "sw_c") =>
               /\ opc' = "ret_true"
               /\ requested_close_date' = o_dates[2]
               /\ o_dates[1] # NotADate /\ o_dates[2] # NotADate
               /\ lock' = "free"
          /\ (opc' = "ret_true") => opc \in {"sw_c", "ret_true"}]_vars

\* A malformed set_open_window has returned False after a window was set
C16_Witness ==
    /\ opc = "ret_false"
    /\ requested_open_date = 0
    /\ requested_close_date = 20

\* The loop waits in Automatic mode between two ticks, the window
\* {open: T0, close: T1} is set and not over, and the last environment ping
\* was a safe one received at T0 + 1s
PingedSafeInWindow ==
    /\ lpc = "waiting"
    /\ waited < LoopDelay
    /\ mode = Automatic
    /\ requested_open_date = T0
    /\ requested_close_date = T1
    /\ now < T1
    /\ epc = "idle"
    /\ environment_safe
    /\ environment_safe_date = T0 + 1

AbortCaused ==
    \/ apc = "slewing" /\ stop_hit
    \/ apc \in {"domecheck", "acq2"} /\ aborted

\* A step of an abort call that began when the status was Complete or Error
LateAbortStep ==
    \/ xpc = "idle" /\ aborts' # aborts /\ a_status # Incomplete
    \/ xpc \in {"abort_stop", "abort_notify"} /\ x_late /\ xpc' # xpc

\* C17: the status of an action never changes again once it is Complete or
\* Error.
C17_StatusChangesOnce ==
    [][a_status # Incomplete => a_status' = a_status]_vars

\* C18: when run_thread has returned, the status is Complete or Error.
C18_ReturnsTerminal ==
    apc = "done" => a_status # Incomplete

\* C19: no step sets the status to Error for a failure that comes from the
\* abort (a slew the abort stopped, a closed dome seen after the abort).
C19_AbortEndsComplete ==
    [][(a_status' = ActionError /\ a_status # ActionError) =>
          ~AbortCaused]_vars

\* C20: an abort call on an action whose status is already Complete or Error
\* sends no stop command and leaves the status alone.
C20_AbortOnTerminalIsNoOp ==
    [][LateAbortStep => UNCHANGED <<stops, a_status>>]_vars

\* ------------------------------------------ schedule validator: the calls
Sites == {"observatory", "rasa"}

InitSchedule ==
    /\ DomeInit
    /\ ActionsIdle
    /\ FlatsIdle
    /\ ExtIdle
    /\ s_site \in Sites
    /\ s_doc \in DocInputs
    /\ s_ret = NotCalled
    /\ s_parsed = NotParsed
    /\ s_window = NotWindowed

\* validate_schedule(json, config)
ValidateSchedule ==
    /\ ~s_ret.done
    /\ s_ret' = ValidateScheduleOf(s_site, s_doc)
    /\ UNCHANGED <<s_site, s_doc, s_parsed, s_window, flatvars, extvars,
                   domevars, actvars>>

\* parse_schedule_actions(json, action_types)
ParseScheduleActions ==
    /\ ~s_parsed.done
    /\ s_parsed' = [done |-> TRUE, actions |-> ParseScheduleActionsOf(s_doc)]
    /\ UNCHANGED <<s_site, s_doc, s_ret, s_window, flatvars, extvars, domevars,
                   actvars>>

\* parse_dome_window(json)
ParseDomeWindow ==
    /\ ~s_window.done
    /\ s_window' = ParseDomeWindowOf(s_site, s_doc)
    /\ UNCHANGED <<s_site, s_doc, s_ret, s_parsed, flatvars, extvars, domevars,
                   actvars>>

NextSchedule == ValidateSchedule \/ ParseScheduleActions \/ ParseDomeWindow

SpecSchedule == InitSchedule /\ [][NextSchedule]_vars

\* ---------------------------------------------- CameraWrapper: the calls
InitFlats ==
    /\ DomeInit
    /\ ActionsIdle
    /\ ScheduleIdle
    /\ ExtIdle
    /\ c_evening \in BOOLEAN
    /\ c_state = AutoFlatWaiting
    /\ c_archive = FALSE
    /\ c_exposure = NoExposure
    /\ c_counts = 0
    /\ c_next = NoExposure
    /\ c_clamped = NoExposure
    /\ c_set_archive = <<>>
    /\ c_frames = 0

\* What the calls on a CameraWrapper leave alone
CamFrame == UNCHANGED <<c_evening, schedvars, extvars, domevars, actvars>>

\* __take_image(exposure): the exposure is started, or the camera daemon
\* call raises and the state becomes Error
TakeImage(state, exposure) ==
    /\ c_next' = exposure
    /\ \/ c_state' = state
       \/ c_state' = AutoFlatError

\* start(): cam.configure, then __take_image(self._start_exposure)
CamStart ==
    /\ c_next = NoExposure
    /\ c_state = AutoFlatWaiting
    /\ TakeImage(c_state, StartExposure(c_evening))
    /\ UNCHANGED <<c_archive, c_exposure, c_counts, c_clamped, c_set_archive,
                   c_frames>>
    /\ CamFrame

\* received_frame(headers) in state Waiting or Saving, for a frame with
\* EXPTIME exposure and MEDCNTS medcnts
CamFrameStep(exposure, medcnts) ==
    LET counts == medcnts - BiasSignal
        new_exposure == NewExposure(c_evening, exposure, counts)
        clamped_exposure == ClampedExposure(new_exposure, exposure)
        state == StateAfterFrame(c_evening, c_state, counts,
                                 new_exposure, clamped_exposure)
        archive == (state = AutoFlatSaving)
    IN  /\ c_frames' = c_frames + 1
        /\ c_exposure' = exposure
        /\ c_counts' = counts
        /\ c_clamped' = clamped_exposure
        /\ IF state # c_state
           THEN /\ c_set_archive' = Append(c_set_archive, archive)
                /\ \/ \* pipeline_enable_archiving returned False
                      /\ c_state' = AutoFlatError
                      /\ UNCHANGED <<c_archive, c_next>>
                   \/ \* set_archive succeeded
                      /\ c_archive' = archive
                      /\ IF state # AutoFlatComplete
                         THEN TakeImage(state, clamped_exposure)
                         ELSE c_state' = state /\ UNCHANGED c_next
           ELSE /\ UNCHANGED <<c_set_archive, c_archive>>
                /\ TakeImage(state, clamped_exposure)

\* received_frame(headers) for a frame the camera took at its request
CamReceivedFrame ==
    /\ c_next # NoExposure
    /\ c_frames < MaxFrames
    /\ c_state \in {AutoFlatWaiting, AutoFlatSaving}
    /\ \E exposure \in ExposureInputs, medcnts \in MedCntsInputs :
         CamFrameStep(exposure, medcnts)
    /\ CamFrame

\* received_frame(headers) in state Complete or Error: nothing is done
CamReceivedLate ==
    /\ c_frames < MaxFrames
    /\ c_state \in {AutoFlatComplete, AutoFlatError}
    /\ c_frames' = c_frames + 1
    /\ UNCHANGED <<c_state, c_archive, c_exposure, c_counts, c_next,
                   c_clamped, c_set_archive>>
    /\ CamFrame

\* check_timeout() after self._expected_complete has passed
CamCheckTimeout ==
    /\ c_next # NoExposure
    /\ c_state \in {AutoFlatWaiting, AutoFlatSaving}
    /\ c_state' = AutoFlatError
    /\ UNCHANGED <<c_archive, c_exposure, c_counts, c_next, c_clamped,
                   c_set_archive, c_frames>>
    /\ CamFrame

\* abort(): cam_stop if Saving, then state = Complete
CamAbort ==
    /\ c_state # AutoFlatComplete
    /\ c_state' = AutoFlatComplete
    /\ UNCHANGED <<c_archive, c_exposure, c_counts, c_next, c_clamped,
                   c_set_archive, c_frames>>
    /\ CamFrame

NextFlats ==
    \/ CamStart
    \/ CamReceivedFrame
    \/ CamReceivedLate
    \/ CamCheckTimeout
    \/ CamAbort

SpecFlats == InitFlats /\ [][NextFlats]_vars

\* The status poll of this tick was made and returned
Polled ==
    /\ \E i \in 1..Len(cmds) : cmds[i] = "status"
    /\ ~(raised /\ LastCmd = "status")

\* The dome daemon calls of this tick from its status poll on
CallsFromPoll ==
    LET i == CHOOSE j \in 1..Len(cmds) : cmds[j] = "status"
    IN  SubSeq(cmds, i, Len(cmds))

\* open_shutters or close_shutters was called in this tick
ShutterCommanded ==
    \E i \in 1..Len(cmds) : cmds[i] \in {"open_shutters", "close_shutters"}

\* C28: in a tick in Automatic mode whose requested and polled status differ
\* as Closed and Open, the heartbeat is re-armed before status is set to
\* Moving, status is Moving when the shutter command is sent, and the tick
\* ends, if no call raised, after the calls status, set_heartbeat_timer and
\* the command of the requested status, with status equal to the requested
\* status and mode Automatic if the command returned Succeeded, and with
\* mode Error otherwise; a tick that polled Moving sends no shutter command.
C28_MoveSequence ==
    /\ lpc = "moving" =>
         (LastCmd = "set_heartbeat_timer" /\ status = l_status
            /\ mode = Automatic)
    /\ lpc = "cmd" => (LastCmd = "set_heartbeat_timer" /\ status = Moving)
    /\ (lpc = "expiry" /\ Polled /\ l_status # Timeout
          /\ requested_status # l_status /\ l_status \in {Closed, Open}) =>
         \/ /\ raised
            /\ mode = Error
         \/ /\ ~raised
            /\ CallsFromPoll =
                 <<"status", "set_heartbeat_timer",
                   IF requested_status = Open THEN "open_shutters"
                   ELSE "close_shutters">>
            /\ \/ status = requested_status /\ mode = Automatic
               \/ status = Moving /\ mode = Error
    /\ (Polled /\ l_status = Moving) => ~ShutterCommanded

\* The dome was polled Closed inside the window and has been opened
C28_Witness ==
    /\ lpc = "expiry"
    /\ Polled
    /\ l_status = Closed
    /\ requested_status = Open
    /\ CallsFromPoll = <<"status", "set_heartbeat_timer", "open_shutters">>
    /\ status = Open
    /\ mode = Automatic

\* C29: a tick in Automatic mode whose polled status equals the requested
\* status sends no shutter command, and sends the heartbeat keep-alive after
\* the poll if and only if the environment ping was less than 30 seconds old
\* when the tick took its snapshot.
C29_KeepAliveOnlyWhenFresh ==
    (lpc = "expiry" /\ Polled /\ l_status = requested_status) =>
        /\ ~ShutterCommanded
        /\ IF environment_safe_age < EnvAgeLimit
           THEN CallsFromPoll = <<"status", "set_heartbeat_timer">>
           ELSE CallsFromPoll = <<"status">>

\* A tick that found the dome as requested 30 seconds after the last ping
\* has sent no keep-alive
C29_Witness ==
    /\ lpc = "expiry"
    /\ Polled
    /\ l_status = requested_status
    /\ environment_safe_date >= 0
    /\ environment_safe_age >= EnvAgeLimit
    /\ CallsFromPoll = <<"status">>
    /\ mode = Automatic

\* A step taken while mode is Manual or Error: status is left alone and the
\* only possible dome daemon call is that of the mode change
QuietStep ==
    mode \in {Manual, Error} =>
        /\ status' = status
        /\ (Len(cmds') > Len(cmds) =>
              (/\ lpc = "mode"
               /\ cmds' = Append(cmds, ModeChangeCall(l_requested_mode))))

\* C30: a step of the loop taken while mode is Manual or Error leaves status
\* alone, and the only dome daemon call it can make is the
\* set_heartbeat_timer call of a mode change.
C30_NoCallsOutsideAutomatic == [][QuietStep]_vars

\* A failed switch back to Manual has left the dome in Error with the status
\* of the last poll, and the tick made no other call
C30_Witness ==
    /\ mode = Error
    /\ lpc = "expiry"
    /\ status = Open
    /\ mode_ret = Failed
    /\ cmds = <<"set_heartbeat_timer_0">>

\* The texts of the messages validate_schedule returned
ReturnedTexts == [i \in 1..Len(s_ret.messages) |-> s_ret.messages[i].text]

\* C21: validate_schedule on a document without the key 'night' returns
\* (False, ["syntax error: missing key 'night'"]) without raising and
\* without calling __create_validator, __validate_dome or __validate_action,
\* whatever the document's dome block and actions are.
C21_MissingNightRejected ==
    (s_ret.done /\ s_doc.night = Missing) =>
        /\ ~s_ret.raised
        /\ s_ret.valid = FALSE
        /\ ReturnedTexts = <<"syntax error: missing key 'night'">>
        /\ s_ret.called = {}

\* A document without 'night' whose dome block and first action are both
\* malformed has been rejected
C21_Witness ==
    /\ s_ret.done
    /\ s_doc.night = Missing
    /\ s_doc.dome_json = "object"
    /\ s_doc.dome.open = "midnight"
    /\ Len(s_doc.actions) = MaxActions
    /\ s_doc.actions[1].json = "number"
    /\ ReturnedTexts = <<"syntax error: missing key 'night'">>

\* Sunset and sunrise of the night the document names
Sunset == StrptimeNight(s_doc.night) + SunsetHour
Sunrise == StrptimeNight(s_doc.night) + SunriseHour

\* The dome block's timestamp under key is well formed and lies before
\* sunset or after sunrise
OutsideNight(key) ==
    /\ s_doc.dome[key] # Missing
    /\ Strptime(s_doc.dome[key]) # NotADate
    /\ \/ Strptime(s_doc.dome[key]) < Sunset
       \/ Strptime(s_doc.dome[key]) > Sunrise

\* The dome block's timestamp under key is well formed and lies inside
\* [sunset, sunrise]
InsideNight(key) ==
    /\ s_doc.dome[key] # Missing
    /\ Strptime(s_doc.dome[key]) # NotADate
    /\ Strptime(s_doc.dome[key]) >= Sunset
    /\ Strptime(s_doc.dome[key]) <= Sunrise

\* The message validate_schedule gives for a timestamp outside the night
NotBetweenText(key) ==
    "dome: " \o key \o ": "
      \o (IF s_site = "rasa" THEN Strftime(Strptime(s_doc.dome[key]))
          ELSE s_doc.dome[key])
      \o " is not between " \o Strftime(Sunset) \o " and " \o Strftime(Sunrise)

\* validate_schedule returned for a document with 'night' and a dome block
DomeValidated ==
    /\ s_ret.done
    /\ ~s_ret.raised
    /\ s_doc.night # Missing
    /\ s_doc.dome_json = "object"

\* C22: when validate_schedule returns for a schedule with a dome block, it
\* reports for each of open and close that lies before the night's sunset or
\* after its sunrise exactly one message about that key, prefixed 'dome: ';
\* and it reports no dome message when open and close are both well formed
\* and inside [sunset, sunrise].
C22_DomeWindowInsideNight ==
    DomeValidated =>
        /\ \A key \in {"open", "close"} :
             OutsideNight(key) =>
                /\ \E i \in 1..Len(s_ret.messages) :
                     /\ s_ret.messages[i].src = "dome"
                     /\ s_ret.messages[i].text = NotBetweenText(key)
                /\ Cardinality({i \in 1..Len(s_ret.messages) :
                      /\ s_ret.messages[i].src = "dome"
                      /\ s_ret.messages[i].path = key}) = 1
        /\ (InsideNight("open") /\ InsideNight("close")) =>
             \A i \in 1..Len(s_ret.messages) : s_ret.messages[i].src # "dome"

\* A dome block that opens before sunset and closes after sunrise has drawn
\* one message for each
C22_Witness ==
    /\ DomeValidated
    /\ s_site = "observatory"
    /\ s_doc.dome.open = "2026-11-01T16:00:00Z"
    /\ s_doc.dome.close = "2026-11-02T08:00:00Z"
    /\ s_doc.actions_json = "array"
    /\ Len(s_doc.actions) = 0
    /\ ReturnedTexts =
         <<"dome: close: 2026-11-02T08:00:00Z is not between hour 17 and hour 31",
           "dome: open: 2026-11-01T16:00:00Z is not between hour 17 and hour 31">>

\* The texts of the messages about the action at index
ActionTexts(index) ==
    LET about == SelectSeq(s_ret.messages,
                   LAMBDA m : m.src = "action" /\ m.index = index)
    IN  [i \in 1..Len(about) |-> about[i].text]

\* The schema violations of an entry of type SlewTelescope, in the order of
\* their paths, with the prefix of the action at index
SlewViolationTexts(index, block) ==
    LET prefix == "action " \o ToString(index) \o " (SlewTelescope): "
    IN  (IF block.dec > 85
         THEN <<prefix \o "dec: " \o ToString(block.dec)
                  \o " is greater than the maximum of 85">>
         ELSE <<>>)
        \o (IF block.ra > 360
            THEN <<prefix \o "ra: " \o ToString(block.ra)
                     \o " is greater than the maximum of 360">>
            ELSE <<>>)

\* What the entry at index is to draw: a message for a missing or an
\* unregistered type, else its schema violations; noschema is what an entry
\* of a registered type that has no schema draws
ExpectedActionTexts(index, block, noschema) ==
    IF block.type = Missing
    THEN <<"action " \o ToString(index) \o ": missing key 'type'">>
    ELSE IF block.type \notin {"SlewTelescope", "Wait"}
    THEN <<"action " \o ToString(index) \o ": unknown action type '"
             \o block.type \o "'">>
    ELSE IF block.type = "SlewTelescope"
    THEN SlewViolationTexts(index, block)
    ELSE noschema

\* validate_schedule returned for a document with 'night' and 'actions'
ActionsValidated ==
    /\ s_ret.done
    /\ ~s_ret.raised
    /\ s_doc.night # Missing
    /\ s_doc.actions_json # "missing"

\* The messages about 'actions' are as expected, noschema being what an
\* entry of a registered type without a schema draws
ActionMessagesAre(noschema(_)) ==
    ActionsValidated =>
        IF s_doc.actions_json = "array"
        THEN \A n \in 1..Len(s_doc.actions) :
               ActionTexts(n - 1) =
                 ExpectedActionTexts(n - 1, s_doc.actions[n], noschema(n - 1))
        ELSE /\ ~s_ret.valid
             /\ ReturnedTexts[Len(ReturnedTexts)] =
                  "syntax: error 'actions' must be a list"

NoMessage(index) == <<>>
NotImplementedMessage(index) ==
    <<"action " \o ToString(index) \o " (Wait): validation not implemented">>

\* C23 as stated: 'actions' must be a list, and the entry at index i draws
\* "action i: missing key 'type'", "action i: unknown action type '<t>'", or
\* its schema violations prefixed 'action i (<type>): ' in the order of their
\* paths; an entry of a registered type without violations draws nothing.
C23_ActionMessages == ActionMessagesAre(NoMessage)

\* C23: as stated for the registered types that have a schema; an entry of
\* a registered type whose validation_schema() is None draws
\* 'action i (<type>): validation not implemented'.
C23_ActionMessagesWithSchema == ActionMessagesAre(NotImplementedMessage)

\* Two violations of one entry have been reported in the order of their
\* paths, and an entry of a type without a schema after them
C23_Witness ==
    /\ ActionsValidated
    /\ s_doc.dome_json = "missing"
    /\ Len(s_doc.actions) = MaxActions
    /\ ReturnedTexts =
         <<"action 0 (SlewTelescope): dec: 90 is greater than the maximum of 85",
           "action 0 (SlewTelescope): ra: 400 is greater than the maximum of 360",
           "action 1 (Wait): validation not implemented">>

\* C24: validate_schedule returns a (valid, messages) pair for every
\* document and never raises.
C24_NeverRaises == s_ret.done => ~s_ret.raised

\* C25: when validate_schedule returns, valid is True exactly when the
\* message list is empty, no dome message follows an action message, and the
\* action messages are in the order of their indices; parse_schedule_actions
\* returns one Action per entry of 'actions' in document order, or the empty
\* list if an entry cannot be built, never a part of the list.
C25_AllOrNothing ==
    /\ (s_ret.done /\ ~s_ret.raised) =>
         /\ s_ret.valid <=> (s_ret.messages = <<>>)
         /\ \A i, j \in 1..Len(s_ret.messages) :
              (i < j /\ s_ret.messages[i].src = "action") =>
                 /\ s_ret.messages[j].src # "dome"
                 /\ s_ret.messages[j].src = "action" =>
                      s_ret.messages[i].index <= s_ret.messages[j].index
    /\ s_parsed.done =>
         IF /\ s_doc.actions_json = "array"
            /\ \A n \in 1..Len(s_doc.actions) :
                 /\ s_doc.actions[n].json = "object"
                 /\ s_doc.actions[n].type \in {"SlewTelescope", "Wait"}
         THEN /\ Len(s_parsed.actions) = Len(s_doc.actions)
              /\ \A n \in 1..Len(s_doc.actions) :
                   /\ s_parsed.actions[n].type = s_doc.actions[n].type
                   /\ s_parsed.actions[n].config = s_doc.actions[n]
         ELSE s_parsed.actions = <<>>

\* A schedule with a bad dome block and a second action of an unknown type
\* has been found invalid, dome message first, and parsed to the empty list
C25_Witness ==
    /\ s_ret.done
    /\ ~s_ret.raised
    /\ ~s_ret.valid
    /\ s_parsed.done
    /\ s_parsed.actions = <<>>
    /\ Len(s_doc.actions) = MaxActions
    /\ s_doc.actions[1].type = "SlewTelescope"
    /\ s_doc.actions[MaxActions].type = "Teleport"
    /\ Len(s_ret.messages) > 1
    /\ s_ret.messages[1].src = "dome"
    /\ s_ret.messages[Len(s_ret.messages)].src = "action"

\* x kept inside [lo, hi]
Clamp(x, lo, hi) ==
    IF RLess(x, lo) THEN lo ELSE IF RLess(hi, x) THEN hi ELSE x

\* clamp(s*e*T/c, [min_exposure, max_exposure], [e/K, e*K]) for c > 0 and
\* clamp(e*K, the same bounds) for c <= 0: the value kept inside both
\* intervals
ClampedTarget(is_evening, e, c) ==
    LET s == IF is_evening THEN <<107, 100>> ELSE <<9, 10>>
        eK == Rat(e[1] * 3, e[2])
        eOverK == Rat(e[1], e[2] * 3)
        x == IF c > 0 THEN Rat(s[1] * e[1] * 30000, s[2] * e[2] * c) ELSE eK
    IN  Clamp(x, RMax(<<1, 10>>, eOverK), RMin(<<30, 1>>, eK))

\* C26: the exposure received_frame computes from a frame of exposure e and
\* bias-subtracted counts c is clamp(s*e*T/c, [min_exposure, max_exposure],
\* [e/K, e*K]) when c > 0 and clamp(e*K, the same bounds) when c <= 0, for e
\* within the exposure limits.
C26_NextExposureClamped ==
    c_clamped # NoExposure =>
        c_clamped = ClampedTarget(c_evening, c_exposure, c_counts)

\* A 5 s frame with few counts: the next exposure is held to three times
\* the last one
C26_Witness ==
    /\ c_exposure = <<5, 1>>
    /\ c_counts = 3700
    /\ c_clamped = <<15, 1>>
    /\ c_next = <<15, 1>>

\* C27: archiving is never left enabled for a camera whose state is Complete
\* or Error (every change of state comes with a set_archive call that
\* enables archiving exactly when the new state is Saving).
C27_ArchivingOffWhenDone ==
    c_state \in {AutoFlatComplete, AutoFlatError} => ~c_archive

\* A step from a state in which mode is Error: request_mode leaves mode
\* alone, and mode changes only to Manual, by the mode change of a tick whose
\* requested_mode is Manual and whose set_heartbeat_timer(0) succeeded
ErrorStep ==
    mode = Error =>
        /\ (requested_mode' # requested_mode \/ opc # opc') => mode' = Error
        /\ mode' # Automatic
        /\ mode' = Manual =>
             /\ lpc = "mode"
             /\ l_requested_mode = Manual
             /\ cmds' = Append(cmds, "set_heartbeat_timer_0")
             /\ mode_ret' = Succeeded

\* C31: while mode is Error no call of request_mode changes mode; mode
\* leaves Error only by the tick whose requested_mode is Manual and whose
\* set_heartbeat_timer(0) returned Succeeded, and Automatic is entered only
\* from Manual.
C31_AutomaticOnlyThroughManual ==
    [][ErrorStep /\ (mode' = Automatic /\ mode # Automatic => mode = Manual)]_vars

\* request_mode(Automatic) was called after the Error was entered, and the
\* tick that read it made no dome daemon call and left mode Error
C31_Witness ==
    /\ mode = Error
    /\ req_since_error
    /\ requested_mode = Automatic
    /\ l_requested_mode = Automatic
    /\ lpc = "expiry"
    /\ cmds = <<>>
    /\ opc = "idle"

\* The snapshot decides that the dome is to be open
DecidesOpen == requested_status' = Open /\ requested_status # Open

\* C33: the loop decides Open only while the window is set and a safe ping
\* later than requested_open_date has been received; so a window cleared by
\* an unsafe notification stays requested Closed until set_open_window is
\* called, and a safe ping from before the open date does not allow opening.
C33_OpenNeedsSafePingAfterOpenDate ==
    [][DecidesOpen =>
          /\ requested_open_date # None
          /\ safe_ping_date > requested_open_date]_vars

\* A step of the clear_open_window() call made by the loop's expiry check
\* that writes None over a date of a window whose close date is later than
\* the clock
ExpiryClearsFutureWindow ==
    /\ lpc \in {"clr1", "clr2"}
    /\ lpc' # lpc
    /\ requested_close_date # None
    /\ requested_close_date > now
    /\ win' # win

\* C34: the loop's close-date expiry check never clears a window whose close
\* date is still in the future, also when set_open_window runs between the
\* check and the clear.
C34_ExpiryKeepsFutureWindow == [][~ExpiryClearsFutureWindow]_vars

\* ------------------------------------- DomeController: _lock and _wait_condition
\* The controller's three threads with one step per acquire and release of
\* _lock and _wait_condition.  What is written under them is left out: lpc,
\* opc and epc hold positions named k_*, and a branch the data decides is a
\* nondeterministic choice.
LocksFrame ==
    UNCHANGED <<mode, requested_mode, win, status, envsafe, daemon_error,
                waited, now, l_requested_mode, current_date, requested_status,
                environment_safe_age, l_status, mode_ret, hb_ret, cmds, raised,
                polled_hb, o_mode, o_dates, e_safe, e_now, histvars, calls,
                actvars, schedvars, flatvars, skyvars>>

\* The controller after construction: the loop is about to take _lock
InitLocks == Init

\* Condition.__exit__ keeps the condition (mutation of CondAfterExit)
CondAfterExitKept(holder) == holder

\* Who holds _wait_condition once `with self._wait_condition` is left
CondAfterExit(holder) == "free"

\* notify_all(): a thread inside wait() is woken
WakeLoop == notified' = (notified \/ lpc = "k_waiting")

\* with self._lock: at the top of the loop
KSnapAcquire ==
    /\ lpc = "snap"
    /\ lock = "free"
    /\ lock' = "loop"
    /\ lpc' = "k_snap"
    /\ UNCHANGED <<cond, opc, epc, notified>>
    /\ LocksFrame

\* The snapshot ends, or raises TypeError: either way `with` releases _lock
KSnapRelease ==
    /\ lpc = "k_snap"
    /\ lock' = "free"
    /\ lpc' \in {"k_daemon", "k_expiry", "k_dead"}
    /\ UNCHANGED <<cond, opc, epc, notified>>
    /\ LocksFrame

\* A call of the dome daemon in one of the two try blocks; __set_mode or
\* __set_status follows it, or the block ends
KDaemonCall ==
    /\ lpc = "k_daemon"
    /\ lpc' \in {"k_set", "k_expiry"}
    /\ UNCHANGED <<lock, cond, opc, epc, notified>>
    /\ LocksFrame

\* __set_mode / __set_status: with self._lock
KSetAcquire ==
    /\ lpc = "k_set"
    /\ lock = "free"
    /\ lock' = "loop"
    /\ lpc' = "k_set_held"
    /\ UNCHANGED <<cond, opc, epc, notified>>
    /\ LocksFrame

KSetRelease ==
    /\ lpc = "k_set_held"
    /\ lock' = "free"
    /\ lpc' \in {"k_daemon", "k_expiry"}
    /\ UNCHANGED <<cond, opc, epc, notified>>
    /\ LocksFrame

\* The expiry check: clear_open_window() is called, or not, or the
\* comparison raises TypeError
KExpiry ==
    /\ lpc = "k_expiry"
    /\ lpc' \in {"k_clear", "k_wait", "k_dead"}
    /\ UNCHANGED <<lock, cond, opc, epc, notified>>
    /\ LocksFrame

\* clear_open_window -> __shortcut_loop_wait: with self._wait_condition
KClearAcquire ==
    /\ lpc = "k_clear"
    /\ cond = "free"
    /\ cond' = "loop"
    /\ lpc' = "k_clear_held"
    /\ UNCHANGED <<lock, opc, epc, notified>>
    /\ LocksFrame

KClearNotify ==
    /\ lpc = "k_clear_held"
    /\ WakeLoop
    /\ cond' = CondAfterExit("loop")
    /\ lpc' = "k_wait"
    /\ UNCHANGED <<lock, opc, epc>>
    /\ LocksFrame

\* with self._wait_condition: at the end of the loop
KWaitAcquire ==
    /\ lpc = "k_wait"
    /\ cond = "free"
    /\ cond' = "loop"
    /\ lpc' = "k_wait_held"
    /\ UNCHANGED <<lock, opc, epc, notified>>
    /\ LocksFrame

\* self._wait_condition.wait(self._loop_delay) releases the condition
KWaitEnter ==
    /\ lpc = "k_wait_held"
    /\ cond' = "free"
    /\ notified' = FALSE
    /\ lpc' = "k_waiting"
    /\ UNCHANGED <<lock, opc, epc>>
    /\ LocksFrame

\* notify_all was called or loop_delay has passed
KWake ==
    /\ lpc = "k_waiting"
    /\ lpc' = "k_reacquire"
    /\ UNCHANGED <<lock, cond, opc, epc, notified>>
    /\ LocksFrame

\* wait() takes the condition again before it returns
KWaitReacquire ==
    /\ lpc = "k_reacquire"
    /\ cond = "free"
    /\ cond' = "loop"
    /\ lpc' = "k_wait_exit"
    /\ UNCHANGED <<lock, opc, epc, notified>>
    /\ LocksFrame

\* The with block is left and the loop starts over
KWaitExit ==
    /\ lpc = "k_wait_exit"
    /\ cond' = CondAfterExit("loop")
    /\ lpc' = "snap"
    /\ UNCHANGED <<lock, opc, epc, notified>>
    /\ LocksFrame

KLoopStep ==
    \/ KSnapAcquire \/ KSnapRelease \/ KDaemonCall \/ KSetAcquire
    \/ KSetRelease \/ KExpiry \/ KClearAcquire \/ KClearNotify
    \/ KWaitAcquire \/ KWaitEnter \/ KWake \/ KWaitReacquire \/ KWaitExit

\* A public operation is called: request_mode or set_open_window with a
\* well-formed argument (k_lock), status() (k_status) or clear_open_window()
\* (k_cond)
KOpCall ==
    /\ opc = "idle"
    /\ opc' \in {"k_lock", "k_status", "k_cond"}
    /\ UNCHANGED <<lock, cond, lpc, epc, notified>>
    /\ LocksFrame

\* request_mode / set_open_window: with self._lock
KOpLockAcquire ==
    /\ opc = "k_lock"
    /\ lock = "free"
    /\ lock' = "op"
    /\ opc' = "k_lock_held"
    /\ UNCHANGED <<cond, lpc, epc, notified>>
    /\ LocksFrame

\* ... the writes, then __shortcut_loop_wait: with self._wait_condition
KOpCondAcquire ==
    /\ opc \in {"k_lock_held", "k_cond"}
    /\ cond = "free"
    /\ cond' = "op"
    /\ opc' = IF opc = "k_lock_held" THEN "k_both_held" ELSE "k_cond_held"
    /\ UNCHANGED <<lock, lpc, epc, notified>>
    /\ LocksFrame

\* notify_all() and the end of the with block
KOpNotify ==
    /\ opc \in {"k_both_held", "k_cond_held"}
    /\ WakeLoop
    /\ cond' = CondAfterExit("op")
    /\ opc' = IF opc = "k_both_held" THEN "k_unlock" ELSE "idle"
    /\ UNCHANGED <<lock, lpc, epc>>
    /\ LocksFrame

\* The end of `with self._lock`: the call returns
KOpUnlock ==
    /\ opc = "k_unlock"
    /\ lock' = "free"
    /\ opc' = "idle"
    /\ UNCHANGED <<cond, lpc, epc, notified>>
    /\ LocksFrame

\* status(): with self._lock
KOpStatusAcquire ==
    /\ opc = "k_status"
    /\ lock = "free"
    /\ lock' = "op"
    /\ opc' = "k_unlock"
    /\ UNCHANGED <<cond, lpc, epc, notified>>
    /\ LocksFrame

KOpStep ==
    \/ KOpLockAcquire \/ KOpCondAcquire \/ KOpNotify \/ KOpUnlock
    \/ KOpStatusAcquire

\* notify_environment_status is called and writes its two fields
KEnvCall ==
    /\ epc = "idle"
    /\ epc' = "k_written"
    /\ UNCHANGED <<lock, cond, lpc, opc, notified>>
    /\ LocksFrame

\* ... and returns, raises TypeError, or calls clear_open_window()
KEnvBranch ==
    /\ epc = "k_written"
    /\ epc' \in {"idle", "k_cond"}
    /\ UNCHANGED <<lock, cond, lpc, opc, notified>>
    /\ LocksFrame

KEnvCondAcquire ==
    /\ epc = "k_cond"
    /\ cond = "free"
    /\ cond' = "env"
    /\ epc' = "k_cond_held"
    /\ UNCHANGED <<lock, lpc, opc, notified>>
    /\ LocksFrame

KEnvNotify ==
    /\ epc = "k_cond_held"
    /\ WakeLoop
    /\ cond' = CondAfterExit("env")
    /\ epc' = "idle"
    /\ UNCHANGED <<lock, lpc, opc>>
    /\ LocksFrame

KEnvStep == KEnvBranch \/ KEnvCondAcquire \/ KEnvNotify

NextLocks == KLoopStep \/ KOpCall \/ KOpStep \/ KEnvCall \/ KEnvStep

\* A thread that is scheduled runs; a thread blocked in acquire gets the lock
\* or condition if it is released again and again (the loop holds neither
\* during its calls of the dome daemon and its wait of loop_delay seconds).
SpecLocks ==
    /\ InitLocks
    /\ [][NextLocks]_vars
    /\ WF_vars(KLoopStep)
    /\ SF_vars(KOpStep)
    /\ SF_vars(KEnvStep)

\* The order of acquisition: the loop holds neither _lock nor _wait_condition
\* while it calls the dome daemon, and not _wait_condition while it acquires
\* _lock; request_mode and set_open_window hold _lock when they take
\* _wait_condition; and while a public call is in progress some thread of
\* the controller can take a step
LockDiscipline ==
    /\ lpc \in {"snap", "k_set"} => cond # "loop"
    /\ lpc = "k_daemon" => lock # "loop" /\ cond # "loop"
    /\ opc \in {"k_both_held", "k_unlock"} => lock = "op"
    /\ opc \in {"k_lock", "k_status"} => cond # "op"
    /\ (opc # "idle" \/ epc # "idle") => ENABLED (KLoopStep \/ KOpStep \/ KEnvStep)

\* C32: the DomeController cannot deadlock: the lock discipline holds in
\* every state, and every public call in progress returns.
C32_NoDeadlock ==
    /\ []LockDiscipline
    /\ (opc # "idle") ~> (opc = "idle")
    /\ (epc # "idle") ~> (epc = "idle")

\* request_mode holds _lock and waits for _wait_condition, which the loop
\* holds, while notify_environment_status waits for it too
C32_Witness ==
    /\ opc = "k_lock_held"
    /\ epc = "k_cond"
    /\ cond = "loop"
    /\ lock = "op"

\* C35: validate_schedule does not relate open to close: for a dome block
\* whose open and close are both inside the night it returns no dome
\* message, also when open is equal to or later than close, and
\* parse_dome_window returns (open, close) as the block gives them.
C35_WindowOrderNotChecked ==
    (DomeValidated /\ InsideNight("open") /\ InsideNight("close")) =>
        /\ \A i \in 1..Len(s_ret.messages) : s_ret.messages[i].src # "dome"
        /\ (s_window.done /\ s_site = "observatory") =>
             /\ s_window.kind = "pair"
             /\ s_window.open = Strptime(s_doc.dome.open)
             /\ s_window.close = Strptime(s_doc.dome.close)

\* A window that opens at sunrise and closes at sunset of the same night has
\* been validated and parsed
C35_Witness ==
    /\ DomeValidated
    /\ s_site = "observatory"
    /\ s_doc.dome.open = "2026-11-02T07:00:00Z"
    /\ s_doc.dome.close = "2026-11-01T17:00:00Z"
    /\ InsideNight("open") /\ InsideNight("close")
    /\ s_window.done
    /\ s_window.open > s_window.close
    /\ \A i \in 1..Len(s_ret.messages) : s_ret.messages[i].src # "dome"

\* ------------------------------------------------ SkyFlats: the three threads
\* The SkyFlats action from its last check of self.aborted before the cameras
\* are started: the run thread (apc), the thread that calls abort and
\* dome_status_changed (xpc) and the thread that delivers received_frame
\* (rpc).  One step per read or write of a field another thread writes.
SkyFlatsKind == "SkyFlats"

NumCameras == Len(CameraOrder)

\* What the evening / dawn rules of received_frame make of the headers: the
\* first branch sets Complete whatever the state is; the second sets Saving
\* if the state it reads is Waiting
FrameDecision(is_evening, exposure, medcnts) ==
    LET counts == medcnts - BiasSignal
        new_exposure == NewExposure(is_evening, exposure, counts)
        clamped_exposure == ClampedExposure(new_exposure, exposure)
    IN  IF StateAfterFrame(is_evening, AutoFlatSaving, counts, new_exposure,
                           clamped_exposure) = AutoFlatComplete
        THEN "complete"
        ELSE IF StateAfterFrame(is_evening, AutoFlatWaiting, counts,
                                new_exposure, clamped_exposure) = AutoFlatSaving
        THEN "saving"
        ELSE "none"

\* success of run_thread without the dome (mutation of Success)
SuccessIgnoresDome(is_open, states) ==
    \A c \in Cameras : states[c] = AutoFlatComplete

\* success = self.dome_is_open and all([camera.state == Complete ...])
Success(is_open, states) ==
    is_open /\ \A c \in Cameras : states[c] = AutoFlatComplete

\* all([camera.state >= AutoFlatState.Complete ...])
AllDone(states) == \A c \in Cameras : states[c] >= AutoFlatComplete

InitSkyFlats ==
    /\ DomeInit
    /\ ScheduleIdle
    /\ ExtIdle
    /\ c_evening \in BOOLEAN
    /\ c_state = AutoFlatWaiting
    /\ c_archive = FALSE
    /\ c_exposure = NoExposure
    /\ c_counts = 0
    /\ c_next = NoExposure
    /\ c_clamped = NoExposure
    /\ c_set_archive = <<>>
    /\ c_frames = 0
    /\ a_kind = SkyFlatsKind
    /\ onsky = TRUE
    /\ apc = "sf_last"
    /\ a_status = Incomplete
    /\ aborted = FALSE
    /\ dome_is_open = TRUE
    /\ a_notified = FALSE
    /\ wcs_status = "Inactive"
    /\ attempt = 0
    /\ stop_hit = FALSE
    /\ xpc = "idle"
    /\ x_late = FALSE
    /\ aborts = 0
    /\ stops = 0

\* What no step of the SkyFlats action changes
SkyFrame ==
    UNCHANGED <<domevars, schedvars, flatvars, cond, a_kind, onsky, wcs_status,
                attempt, stop_hit, x_late, stops>>

runvars == <<apc, a_cam, a_status, a_success, run_aborted>>
ctlvars == <<xpc, x_cam, aborts, abort_returned>>
framevars == <<rpc, r_cam, r_last, r_dec>>

\* The run thread moves on to the next camera, or to pc after the last one
NextCamera(pc, after) ==
    IF a_cam < NumCameras
    THEN apc' = pc /\ a_cam' = a_cam + 1
    ELSE apc' = after /\ a_cam' = 0

\* if self.aborted: self.status = Complete; return (last chance to bail out)
SkyLastChance ==
    /\ apc = "sf_last"
    /\ IF aborted
       THEN apc' = "done" /\ a_status' = Complete /\ UNCHANGED a_cam
       ELSE apc' = "sf_start" /\ a_cam' = 1 /\ UNCHANGED a_status
    /\ UNCHANGED <<a_success, run_aborted, f_state, aborted, dome_is_open,
                   a_notified, ctlvars, framevars>>
    /\ SkyFrame

\* camera.start(): __take_image(self._start_exposure) starts an exposure, or
\* fails and sets Error
SkyStart ==
    /\ apc = "sf_start"
    /\ \/ UNCHANGED f_state
       \/ f_state' = [f_state EXCEPT ![CameraOrder[a_cam]] = AutoFlatError]
    /\ NextCamera("sf_start", "sf_wait")
    /\ UNCHANGED <<a_status, a_success, run_aborted, aborted, dome_is_open,
                   a_notified, ctlvars, framevars>>
    /\ SkyFrame

\* with self._wait_condition: self._wait_condition.wait(5)
SkyWait ==
    /\ apc = "sf_wait"
    /\ apc' = "sf_waiting"
    /\ a_notified' = FALSE
    /\ UNCHANGED <<a_cam, a_status, a_success, run_aborted, f_state, aborted,
                   dome_is_open, ctlvars, framevars>>
    /\ SkyFrame

\* The wait returns: notify_all was called or 5 seconds have passed
SkyWake ==
    /\ apc = "sf_waiting"
    /\ apc' = "sf_check"
    /\ a_cam' = 1
    /\ UNCHANGED <<a_status, a_success, run_aborted, f_state, aborted,
                   dome_is_open, a_notified, ctlvars, framevars>>
    /\ SkyFrame

\* camera.check_timeout(): the state is read; the frame is late or not
SkyCheckTimeout ==
    /\ apc = "sf_check"
    /\ \/ /\ f_state[CameraOrder[a_cam]] \in {AutoFlatWaiting, AutoFlatSaving}
          /\ apc' = "sf_timeout"
          /\ UNCHANGED a_cam
       \/ NextCamera("sf_check", "sf_aborted")
    /\ UNCHANGED <<a_status, a_success, run_aborted, f_state, aborted,
                   dome_is_open, a_notified, ctlvars, framevars>>
    /\ SkyFrame

\* check_timeout: self.state = AutoFlatState.Error
SkyTimeoutWrite ==
    /\ apc = "sf_timeout"
    /\ f_state' = [f_state EXCEPT ![CameraOrder[a_cam]] = AutoFlatError]
    /\ NextCamera("sf_check", "sf_aborted")
    /\ UNCHANGED <<a_status, a_success, run_aborted, aborted, dome_is_open,
                   a_notified, ctlvars, framevars>>
    /\ SkyFrame

\* if self.aborted: break
SkyCheckAborted ==
    /\ apc = "sf_aborted"
    /\ apc' = IF aborted THEN "sf_success" ELSE "sf_dome"
    /\ UNCHANGED <<a_cam, a_status, a_success, run_aborted, f_state, aborted,
                   dome_is_open, a_notified, ctlvars, framevars>>
    /\ SkyFrame

\* if not self.dome_is_open: for camera in ...: camera.abort()
SkyCheckDome ==
    /\ apc = "sf_dome"
    /\ IF dome_is_open
       THEN apc' = "sf_all" /\ UNCHANGED a_cam
       ELSE apc' = "sf_abort" /\ a_cam' = 1
    /\ UNCHANGED <<a_status, a_success, run_aborted, f_state, aborted,
                   dome_is_open, a_notified, ctlvars, framevars>>
    /\ SkyFrame

\* camera.abort(): if self.state == Saving: cam_stop(...)
SkyCameraAbort ==
    /\ apc = "sf_abort"
    /\ apc' = "sf_abort_write"
    /\ UNCHANGED <<a_cam, a_status, a_success, run_aborted, f_state, aborted,
                   dome_is_open, a_notified, ctlvars, framevars>>
    /\ SkyFrame

\* camera.abort(): self.state = Complete; after the last camera: break
SkyCameraAbortWrite ==
    /\ apc = "sf_abort_write"
    /\ f_state' = [f_state EXCEPT ![CameraOrder[a_cam]] = AutoFlatComplete]
    /\ run_aborted' = run_aborted \cup {CameraOrder[a_cam]}
    /\ NextCamera("sf_abort", "sf_success")
    /\ UNCHANGED <<a_status, a_success, aborted, dome_is_open, a_notified,
                   ctlvars, framevars>>
    /\ SkyFrame

\* if all([camera.state >= Complete ...]): break
SkyCheckAll ==
    /\ apc = "sf_all"
    /\ apc' = IF AllDone(f_state) THEN "sf_success" ELSE "sf_wait"
    /\ UNCHANGED <<a_cam, a_status, a_success, run_aborted, f_state, aborted,
                   dome_is_open, a_notified, ctlvars, framevars>>
    /\ SkyFrame

\* success = self.dome_is_open and all([...])
SkySuccess ==
    /\ apc = "sf_success"
    /\ a_success' = Success(dome_is_open, f_state)
    /\ apc' = "sf_status"
    /\ UNCHANGED <<a_cam, a_status, run_aborted, f_state, aborted,
                   dome_is_open, a_notified, ctlvars, framevars>>
    /\ SkyFrame

\* self.status = Complete if self.aborted or success else Error
SkyStatus ==
    /\ apc = "sf_status"
    /\ a_status' = IF aborted \/ a_success THEN Complete ELSE ActionError
    /\ apc' = "done"
    /\ UNCHANGED <<a_cam, a_success, run_aborted, f_state, aborted,
                   dome_is_open, a_notified, ctlvars, framevars>>
    /\ SkyFrame

SkyRunStep ==
    \/ SkyLastChance \/ SkyStart \/ SkyWait \/ SkyWake \/ SkyCheckTimeout
    \/ SkyTimeoutWrite \/ SkyCheckAborted \/ SkyCheckDome \/ SkyCameraAbort
    \/ SkyCameraAbortWrite \/ SkyCheckAll \/ SkySuccess \/ SkyStatus

\* SkyFlats.abort(): super().abort() sets aborted
SkyAbortBegin ==
    /\ xpc = "idle"
    /\ apc # "done"
    /\ aborts < MaxAborts
    /\ aborts' = aborts + 1
    /\ aborted' = TRUE
    /\ xpc' = "ab_cam"
    /\ x_cam' = 1
    /\ UNCHANGED <<abort_returned, f_state, dome_is_open, a_notified, runvars,
                   framevars>>
    /\ SkyFrame

\* camera.abort(): if self.state == Saving: cam_stop(...)
SkyAbortCamera ==
    /\ xpc = "ab_cam"
    /\ xpc' = "ab_write"
    /\ UNCHANGED <<x_cam, aborts, abort_returned, f_state, aborted,
                   dome_is_open, a_notified, runvars, framevars>>
    /\ SkyFrame

\* camera.abort(): self.state = Complete
SkyAbortWrite ==
    /\ xpc = "ab_write"
    /\ f_state' = [f_state EXCEPT ![CameraOrder[x_cam]] = AutoFlatComplete]
    /\ IF x_cam < NumCameras
       THEN xpc' = "ab_cam" /\ x_cam' = x_cam + 1
       ELSE xpc' = "ab_notify" /\ x_cam' = 0
    /\ UNCHANGED <<aborts, abort_returned, aborted, dome_is_open, a_notified,
                   runvars, framevars>>
    /\ SkyFrame

\* with self._wait_condition: notify_all(); abort() returns
SkyAbortNotify ==
    /\ xpc = "ab_notify"
    /\ a_notified' = (a_notified \/ apc = "sf_waiting")
    /\ abort_returned' = TRUE
    /\ xpc' = "idle"
    /\ UNCHANGED <<x_cam, aborts, f_state, aborted, dome_is_open, runvars,
                   framevars>>
    /\ SkyFrame

\* dome_status_changed(dome_is_open): super() sets dome_is_open; notify_all()
SkyDomeStatusChanged ==
    /\ xpc = "idle"
    /\ apc # "done"
    /\ dome_is_open' = ~dome_is_open
    /\ a_notified' = (a_notified \/ apc = "sf_waiting")
    /\ UNCHANGED <<ctlvars, f_state, aborted, runvars, framevars>>
    /\ SkyFrame

SkyControlStep ==
    \/ SkyAbortBegin \/ SkyAbortCamera \/ SkyAbortWrite \/ SkyAbortNotify
    \/ SkyDomeStatusChanged

\* The end of a received_frame call: its locals are gone
FrameReturn ==
    /\ rpc' = "idle"
    /\ r_cam' = CameraOrder[1]
    /\ r_last' = AutoFlatWaiting
    /\ r_dec' = "none"

\* SkyFlats.received_frame(headers) -> camera.received_frame(headers):
\* last_state = self.state
FrameCall ==
    /\ rpc = "idle"
    /\ apc \notin {"sf_last", "sf_start", "done"}
    /\ \E c \in Cameras, exposure \in ExposureInputs, medcnts \in MedCntsInputs :
         /\ r_cam' = c
         /\ r_last' = f_state[c]
         /\ r_dec' = FrameDecision(c_evening, exposure, medcnts)
    /\ rpc' = "r_if"
    /\ UNCHANGED <<f_state, aborted, dome_is_open, a_notified, runvars, ctlvars>>
    /\ SkyFrame

\* if self.state == Waiting or self.state == Saving
FrameIf ==
    /\ rpc = "r_if"
    /\ IF f_state[r_cam] \in {AutoFlatWaiting, AutoFlatSaving}
       THEN rpc' = "r_rules" /\ UNCHANGED <<r_cam, r_last, r_dec>>
       ELSE FrameReturn
    /\ UNCHANGED <<f_state, aborted, dome_is_open, a_notified, runvars, ctlvars>>
    /\ SkyFrame

\* The evening / dawn rules: the first branch writes Complete; the second
\* reads self.state == Waiting
FrameRules ==
    /\ rpc = "r_rules"
    /\ IF r_dec = "complete"
       THEN /\ f_state' = [f_state EXCEPT ![r_cam] = AutoFlatComplete]
            /\ rpc' = "r_changed"
       ELSE /\ rpc' = IF r_dec = "saving" /\ f_state[r_cam] = AutoFlatWaiting
                      THEN "r_saving" ELSE "r_changed"
            /\ UNCHANGED f_state
    /\ UNCHANGED <<r_cam, r_last, r_dec, aborted, dome_is_open, a_notified,
                   runvars, ctlvars>>
    /\ SkyFrame

\* self.state = AutoFlatState.Saving
FrameSetSaving ==
    /\ rpc = "r_saving"
    /\ f_state' = [f_state EXCEPT ![r_cam] = AutoFlatSaving]
    /\ rpc' = "r_changed"
    /\ UNCHANGED <<r_cam, r_last, r_dec, aborted, dome_is_open, a_notified,
                   runvars, ctlvars>>
    /\ SkyFrame

\* if self.state != last_state
FrameChanged ==
    /\ rpc = "r_changed"
    /\ rpc' = IF f_state[r_cam] # r_last THEN "r_archive" ELSE "r_take_if"
    /\ UNCHANGED <<f_state, r_cam, r_last, r_dec, aborted, dome_is_open,
                   a_notified, runvars, ctlvars>>
    /\ SkyFrame

\* pipeline_enable_archiving(...) returns True, or False: Error and return
FrameArchive ==
    /\ rpc = "r_archive"
    /\ \/ /\ rpc' = "r_take_if"
          /\ UNCHANGED <<f_state, r_cam, r_last, r_dec>>
       \/ /\ f_state' = [f_state EXCEPT ![r_cam] = AutoFlatError]
          /\ FrameReturn
    /\ UNCHANGED <<aborted, dome_is_open, a_notified, runvars, ctlvars>>
    /\ SkyFrame

\* if self.state != AutoFlatState.Complete
FrameTakeIf ==
    /\ rpc = "r_take_if"
    /\ IF f_state[r_cam] # AutoFlatComplete
       THEN rpc' = "r_take" /\ UNCHANGED <<r_cam, r_last, r_dec>>
       ELSE FrameReturn
    /\ UNCHANGED <<f_state, aborted, dome_is_open, a_notified, runvars, ctlvars>>
    /\ SkyFrame

\* self.__take_image(clamped_exposure): the exposure starts, or the call
\* fails and sets Error
FrameTakeImage ==
    /\ rpc = "r_take"
    /\ \/ UNCHANGED f_state
       \/ f_state' = [f_state EXCEPT ![r_cam] = AutoFlatError]
    /\ FrameReturn
    /\ UNCHANGED <<aborted, dome_is_open, a_notified, runvars, ctlvars>>
    /\ SkyFrame

SkyFrameStep ==
    \/ FrameCall \/ FrameIf \/ FrameRules \/ FrameSetSaving \/ FrameChanged
    \/ FrameArchive \/ FrameTakeIf \/ FrameTakeImage

NextSkyFlats == SkyRunStep \/ SkyControlStep \/ SkyFrameStep

SpecSkyFlats == InitSkyFlats /\ [][NextSkyFlats]_vars

\* A step that keeps every camera's state on Waiting -> Saving ->
\* {Complete, Error}, and in which a received_frame call that finds its
\* camera Complete or Error returns at once
ForwardStep ==
    /\ \A c \in Cameras :
         /\ f_state[c] = AutoFlatSaving => f_state'[c] # AutoFlatWaiting
         /\ f_state[c] \in {AutoFlatComplete, AutoFlatError} =>
              f_state'[c] \notin {AutoFlatWaiting, AutoFlatSaving}
    /\ (rpc = "r_if" /\ rpc' # rpc /\ f_state[r_cam] >= AutoFlatComplete) =>
         rpc' = "idle" /\ f_state' = f_state
    /\ (apc = "sf_check" /\ f_state[CameraOrder[a_cam]] >= AutoFlatComplete) =>
         f_state' = f_state \/ apc' = apc

\* C36: a camera's state only moves forward along Waiting -> Saving ->
\* {Complete, Error}: no step takes it from Saving to Waiting or from Complete
\* or Error to Waiting or Saving, and received_frame and check_timeout leave a
\* camera that is Complete or Error alone.
C36_StateOnlyForward == [][ForwardStep]_vars

\* A step in which a camera starts an exposure: camera.start() of the run
\* thread or __take_image of received_frame succeeds
ExposureStarts ==
    \/ apc = "sf_start" /\ <<apc, a_cam>>' # <<apc, a_cam>> /\ f_state' = f_state
    \/ rpc = "r_take" /\ rpc' = "idle" /\ f_state' = f_state

\* C37: once SkyFlats.abort() has returned no camera starts an exposure.
C37_NoExposureAfterAbort == [][abort_returned => ~ExposureStarts]_vars

\* The same for the exposures that received_frame starts
NoFrameExposureAfterAbort ==
    [][abort_returned => ~(rpc = "r_take" /\ rpc' = "idle"
                            /\ f_state' = f_state)]_vars

\* The run thread takes a step
RunStepTaken == <<apc, a_cam>>' # <<apc, a_cam>>

\* What the steps of the acquisition loop and of the lines after it do
LoopExitStep ==
    /\ (apc = "sf_aborted" /\ RunStepTaken) =>
         (apc' = "sf_success" <=> aborted)
    /\ (apc = "sf_dome" /\ RunStepTaken) =>
         (apc' = "sf_abort" <=> ~dome_is_open)
    /\ (apc = "sf_all" /\ RunStepTaken) =>
         (apc' = "sf_success" <=>
            \A c \in Cameras : f_state[c] \in {AutoFlatComplete, AutoFlatError})
    /\ (apc # "sf_success" /\ apc' = "sf_success") =>
         \/ apc = "sf_aborted"
         \/ apc = "sf_all"
         \/ apc = "sf_abort_write" /\ run_aborted' = Cameras
    /\ (apc \in {"sf_wait", "sf_waiting", "sf_check", "sf_timeout"}
          /\ RunStepTaken) =>
         apc' \in {"sf_wait", "sf_waiting", "sf_check", "sf_timeout",
                   "sf_aborted"}
    /\ (apc = "sf_success" /\ RunStepTaken) =>
         /\ apc' = "sf_status"
         /\ a_success' <=>
              (dome_is_open /\ \A c \in Cameras : f_state[c] = AutoFlatComplete)
    /\ (apc = "sf_status" /\ RunStepTaken) =>
         /\ apc' = "done"
         /\ a_status' = IF aborted \/ a_success THEN Complete ELSE ActionError

\* C38: the SkyFlats acquisition loop is left exactly when the action is
\* aborted, the dome is not open (after abort() was called on every camera)
\* or every camera is Complete or Error; the action then ends Complete if it
\* is aborted or the dome is open and every camera is Complete, and Error
\* otherwise.
C38_LoopExitAndStatus == [][LoopExitStep]_vars

\* The dome closed during acquisition: the run thread aborted both cameras
\* and the action ended in Error
C38_Witness ==
    /\ apc = "done"
    /\ run_aborted = Cameras
    /\ ~aborted
    /\ ~dome_is_open
    /\ a_status = ActionError
    /\ \A c \in Cameras : f_state[c] = AutoFlatComplete

\* ----------------------------------- CameraWrapper: frames with any EXPTIME
\* received_frame(headers) for any frame the pipeline reports
CamReceivedAnyFrame ==
    /\ c_next # NoExposure
    /\ c_frames < MaxFrames
    /\ c_state \in {AutoFlatWaiting, AutoFlatSaving}
    /\ \E exposure \in HeaderExposureInputs, medcnts \in MedCntsInputs :
         CamFrameStep(exposure, medcnts)
    /\ CamFrame

NextHeaders ==
    \/ CamStart \/ CamReceivedAnyFrame \/ CamReceivedLate \/ CamCheckTimeout
    \/ CamAbort

SpecHeaders == InitFlats /\ [][NextHeaders]_vars

\* C39: the exposure passed to __take_image lies within
\* [min_exposure, max_exposure] for every EXPTIME and MEDCNTS of the frame.
C39_NextExposureWithinLimits ==
    c_next # NoExposure =>
        /\ ~RLess(c_next, MinExposure)
        /\ ~RLess(MaxExposure, c_next)

\* A dome_status_changed call returns
DomeCallReturns ==
    /\ xpc' = "idle"
    /\ xpc = "dome_notify" \/ dome_is_open' # dome_is_open

\* The positions of ObserveAltAzField's acquisition loop
AcquirePcs == {"acqwaiting", "acq1", "acq2", "acq3"}

\* What the steps of an on-sky ObserveAltAzField action do about the dome
ObserveDomeStep ==
    (a_kind = ObserveAltAzField /\ onsky) =>
        /\ (DomeCallReturns /\ ~dome_is_open' /\ apc \in WaitingPcs) =>
             a_notified'
        /\ (apc = "domecheck" /\ apc' # apc /\ ~dome_is_open) =>
             apc' = "done" /\ a_status' = ActionError
        /\ (apc = "acq2" /\ apc' # apc /\ ~dome_is_open) =>
             a_status' = ActionError
        /\ (apc = "acq3" /\ apc' # apc /\ a_status # Incomplete) =>
             apc' = "camstop"
        /\ (apc \in AcquirePcs /\ apc' # apc) =>
             apc' \in AcquirePcs \cup {"camstop"}
        /\ (apc = "camstop" /\ apc' # apc) => apc' = "done"
        /\ (apc = "domecheck" /\ apc' = "slew") => dome_is_open

\* C40: for an on-sky ObserveAltAzField action, dome_status_changed(False)
\* wakes a run thread that is waiting; a dome that is not open when the start
\* wait has ended ends the action in Error with no slew and no exposure
\* sequence; a dome seen closed in the acquisition loop sets Error and the
\* loop is left; and every exit from the acquisition loop passes cam_stop
\* before the thread ends.
C40_DomeClosedEndsObservation == [][ObserveDomeStep]_vars

\* The dome closed during acquisition, the waiting run thread was woken by
\* the notification, and the action is about to call cam_stop with status
\* Error
C40_Witness ==
    /\ a_kind = ObserveAltAzField
    /\ onsky
    /\ apc = "camstop"
    /\ a_status = ActionError
    /\ ~dome_is_open
    /\ a_notified
    /\ ~aborted
====
